---------------------------- MODULE Spec2Model ----------------------------
(***************************************************************************)
(* The compare engine of the Compare plugin (src/src/Engine/Engine.cpp):   *)
(* line hashing, the line-level diff, move detection, block pairing with   *)
(* the word-level diff, marking, find-unique mode and compareViews.        *)
(*                                                                         *)
(* A document is a non-empty sequence of lines, a line is a sequence of    *)
(* one-character strings.  A 64-bit hash value is modelled by the sequence *)
(* of bytes mixed into it: Hash appends, cHashSeed is the empty sequence,  *)
(* so two hashes are equal exactly when the mixed byte sequences are.      *)
(***************************************************************************)
EXTENDS Integers, Sequences, FiniteSets, TLC

VARIABLES
    input,      \* the arguments of compareViews and the user settings
    views,      \* the two Scintilla documents: text, modify flag, read-only flag
    pc,         \* position of compareViews / runCompare / runFindUnique
    progress,   \* the ProgressDlg singleton and what it has answered
    cmp,        \* locals of runCompare / runFindUnique (cmpInfo, line hashes, loop index)
    out,        \* markers painted, text ranges marked, alignmentInfo, result, message boxes
    first       \* outcome of an earlier compare on the exchanged views (swap harness)

vars == <<input, views, pc, progress, cmp, out, first>>

-----------------------------------------------------------------------------
(* Bounds of the model *)

\* most lines of a document in the whole-compare specifications
MaxLines == 2
\* most lines of a document in the move-detection specification
MaxMoveLines == 4
\* most lines of a document in the block-pairing specification
MaxPairLines == 2
MaxSwapLines == 3
MaxRunLines == 4
MaxTieLines == 4
MaxPaintLines == 3

-----------------------------------------------------------------------------
(* Small helpers *)

Max(a, b) == IF a >= b THEN a ELSE b

Range(s) == {s[k] : k \in 1..Len(s)}

\* all sequences over S of length lo..hi
SeqsOf(S, lo, hi) == UNION {[1..n -> S] : n \in lo..hi}

RECURSIVE SumSeq(_)
SumSeq(s) == IF s = <<>> THEN 0 ELSE Head(s) + SumSeq(Tail(s))

MAIN_VIEW == "MAIN_VIEW"
SUB_VIEW == "SUB_VIEW"

DIFF_MATCH == "DIFF_MATCH"
DIFF_IN_1 == "DIFF_IN_1"
DIFF_IN_2 == "DIFF_IN_2"

MARKER_MASK_ADDED == "ADDED"
MARKER_MASK_REMOVED == "REMOVED"
MARKER_MASK_ADDED_LOCAL == "ADDED_LOCAL"
MARKER_MASK_REMOVED_LOCAL == "REMOVED_LOCAL"
MARKER_MASK_MOVED_LINE == "MOVED_LINE"
MARKER_MASK_MOVED_BEGIN == "MOVED_BEGIN"
MARKER_MASK_MOVED_MID == "MOVED_MID"
MARKER_MASK_MOVED_END == "MOVED_END"
MARKER_MASK_CHANGED == "CHANGED"
\* diffMask = 0
NoMask == "0"

COMPARE_ERROR == "COMPARE_ERROR"
COMPARE_CANCELLED == "COMPARE_CANCELLED"
COMPARE_MATCH == "COMPARE_MATCH"
COMPARE_MISMATCH == "COMPARE_MISMATCH"

section_t(off, len) == [off |-> off, len |-> len]

-----------------------------------------------------------------------------
(* Scintilla: the document of a view *)

\* SCI_GETLENGTH: bytes of the document, one line break between two lines
SciGetLength(doc) == SumSeq([k \in 1..Len(doc) |-> Len(doc[k])]) + (Len(doc) - 1)

SciGetLineCount(doc) == Len(doc)

\* SCI_POSITIONFROMLINE of the 0-based line
SciPositionFromLine(doc, line) ==
    SumSeq([k \in 1..line |-> Len(doc[k]) + 1])

\* the bytes between SCI_POSITIONFROMLINE and SCI_GETLINEENDPOSITION of the 0-based line
getText(doc, line) == doc[line + 1]

\* SCI_INSERTTEXT 0 "\n"
SciInsertNewlineAtOrigin(doc) == <<<<>>>> \o doc

-----------------------------------------------------------------------------
(* Hasher *)

cHashSeed == <<>>

Hash(hval, letter) == Append(hval, letter)

UpperCase == <<"A","B","C","D","E","F","G","H","I","J","K","L","M",
               "N","O","P","Q","R","S","T","U","V","W","X","Y","Z">>
LowerCase == <<"a","b","c","d","e","f","g","h","i","j","k","l","m",
               "n","o","p","q","r","s","t","u","v","w","x","y","z">>
Digits == {"0","1","2","3","4","5","6","7","8","9"}

toLowerCaseChar(c) ==
    IF c \in Range(UpperCase)
    THEN LowerCase[CHOOSE k \in 1..26 : UpperCase[k] = c]
    ELSE c

toLowerCase(line) == [k \in 1..Len(line) |-> toLowerCaseChar(line[k])]

RECURSIVE HashLine(_, _, _)
\* the loop of computeLineHashes over the bytes of one line
HashLine(line, IgnoreSpaces, hval) ==
    IF line = <<>> THEN hval
    ELSE IF IgnoreSpaces /\ (Head(line) = " " \/ Head(line) = "\t")
         THEN HashLine(Tail(line), IgnoreSpaces, hval)
         ELSE HashLine(Tail(line), IgnoreSpaces, Hash(hval, Head(line)))

\* hash of the 0-based line of doc under the settings
LineHash(doc, line, settings) ==
    LET text == getText(doc, line)
        folded == IF settings.IgnoreCase THEN toLowerCase(text) ELSE text
    IN  HashLine(folded, settings.IgnoreSpaces, cHashSeed)

monitorCancelEveryXLine == 500

\* doc.section as computeLineHashes leaves it before the trailing blank is dropped
SectionFor(doc, section) ==
    LET lineCount == IF SciGetLength(doc) # 0 THEN SciGetLineCount(doc) ELSE 0
    IN  IF section.len <= 0 \/ section.off + section.len > lineCount
        THEN section_t(section.off, lineCount - section.off)
        ELSE section

RECURSIVE dropTrailingBlanks(_)
dropTrailingBlanks(hashes) ==
    IF hashes # <<>> /\ hashes[Len(hashes)] = cHashSeed
    THEN dropTrailingBlanks(SubSeq(hashes, 1, Len(hashes) - 1))
    ELSE hashes

\* a mutation of computeLineHashes: every blank line at the end of the section is
\* dropped, not only the last one
computeLineHashesDropsAll(doc, section, settings, hasProgress, advance) ==
    LET sec == SectionFor(doc, section)
        all == [k \in 1..sec.len |-> LineHash(doc, sec.off + k - 1, settings)]
    IN  IF hasProgress /\ sec.len > 0 /\ ~advance
        THEN [section |-> sec, hashes |-> <<>>]
        ELSE [section |-> section_t(sec.off, Len(dropTrailingBlanks(all))),
              hashes |-> dropTrailingBlanks(all)]

\* computeLineHashes: the new doc.section and the returned hashes.  advance is the
\* answer of progress->Advance() at line 0 (the only multiple of 500 below the
\* bound); hasProgress tells whether the dialog exists.
computeLineHashes(doc, section, settings, hasProgress, advance) ==
    LET sec == SectionFor(doc, section)
        all == [k \in 1..sec.len |-> LineHash(doc, sec.off + k - 1, settings)]
    IN  IF hasProgress /\ sec.len > 0 /\ ~advance
        THEN [section |-> sec, hashes |-> <<>>]
        ELSE IF sec.len # 0 /\ all[sec.len] = cHashSeed
             THEN [section |-> section_t(sec.off, sec.len - 1),
                   hashes |-> SubSeq(all, 1, sec.len - 1)]
             ELSE [section |-> sec, hashes |-> all]

-----------------------------------------------------------------------------
(* Tokenizer *)

SPACECHAR == "SPACECHAR"
ALPHANUMCHAR == "ALPHANUMCHAR"
OTHERCHAR == "OTHERCHAR"

getCharType(letter) ==
    IF letter = " " \/ letter = "\t" THEN SPACECHAR
    ELSE IF letter \in Range(UpperCase) \cup Range(LowerCase) \cup Digits \/ letter = "_"
         THEN ALPHANUMCHAR
         ELSE OTHERCHAR

RECURSIVE WordsLoop(_, _, _, _, _)
\* the loop of getWords over line[i..] (i is 1-based here, pos is 0-based)
WordsLoop(line, i, word, IgnoreSpaces, acc) ==
    LET keep == ~IgnoreSpaces \/ word.type # SPACECHAR IN
    IF i > Len(line)
    THEN IF keep THEN Append(acc, word) ELSE acc
    ELSE LET newType == getCharType(line[i]) IN
         IF newType = word.type
         THEN WordsLoop(line, i + 1,
                        [word EXCEPT !.length = @ + 1, !.hash = Hash(@, line[i])],
                        IgnoreSpaces, acc)
         ELSE WordsLoop(line, i + 1,
                        [type |-> newType, hash |-> Hash(cHashSeed, line[i]),
                         pos |-> i - 1, length |-> 1],
                        IgnoreSpaces,
                        IF keep THEN Append(acc, word) ELSE acc)

\* the words of one line of text
LineWords(text, settings) ==
    LET line == IF settings.IgnoreCase THEN toLowerCase(text) ELSE text IN
    IF Len(line) > 0
    THEN WordsLoop(line, 2,
                   [type |-> getCharType(line[1]), hash |-> Hash(cHashSeed, line[1]),
                    pos |-> 0, length |-> 1],
                   settings.IgnoreSpaces, <<>>)
    ELSE <<>>

\* getWords: the word vectors of lineCount lines from the 0-based lineOffset
getWords(lineOffset, lineCount, doc, settings) ==
    [k \in 1..lineCount |-> LineWords(getText(doc, lineOffset + k - 1), settings)]

-----------------------------------------------------------------------------
(* DiffCalc (diff.h): longest common subsequence as typed spans *)

RECURSIVE LcsRow(_, _, _, _, _)
\* LCS lengths of (x followed by the rest of A) against b[j..], for j = 1..Len(b)+1,
\* from the row of the rest of A; acc holds the entries to the right of j
LcsRow(x, b, below, j, acc) ==
    IF j = 0 THEN acc
    ELSE LET v == IF x = b[j] THEN 1 + below[j + 1] ELSE Max(below[j], acc[1])
         IN  LcsRow(x, b, below, j - 1, <<v>> \o acc)

RECURSIVE LcsTable(_, _, _, _)
\* rows i..Len(a)+1 of the table of LCS lengths of a[i..] against b[j..]; a row is
\* computed before the rows above it
LcsTable(a, b, i, acc) ==
    IF i = 0 THEN acc
    ELSE CHOOSE T \in {LcsTable(a, b, i - 1, rows) :
                           rows \in {<<LcsRow(a[i], b, acc[1], Len(b), <<0>>)>> \o acc}} :
             TRUE

RECURSIVE LcsWalk(_, _, _, _, _)
\* one edit per element: "M" both, "A" only in a, "B" only in b.  Equal heads are
\* matched; otherwise the element of a is dropped first when that loses nothing.
LcsWalk(a, b, T, i, j) ==
    IF i > Len(a) /\ j > Len(b) THEN <<>>
    ELSE IF i <= Len(a) /\ j <= Len(b) /\ a[i] = b[j]
         THEN <<"M">> \o LcsWalk(a, b, T, i + 1, j + 1)
         ELSE IF i <= Len(a) /\ (j > Len(b) \/ T[i + 1][j] >= T[i][j + 1])
              THEN <<"A">> \o LcsWalk(a, b, T, i + 1, j)
              ELSE <<"B">> \o LcsWalk(a, b, T, i, j + 1)

\* the pending IN_1 span and then the pending IN_2 span before positions ai, bi
FlushEdits(spans, ai, bi, na, nb) ==
    LET s1 == IF na > 0
              THEN Append(spans, [type |-> DIFF_IN_1, off |-> ai - na, len |-> na])
              ELSE spans
    IN  IF nb > 0
        THEN Append(s1, [type |-> DIFF_IN_2, off |-> bi - nb, len |-> nb])
        ELSE s1

RECURSIVE EditSpans(_, _, _, _, _, _, _)
\* merge the edits into spans; ai, bi are the 0-based positions in a and b, na, nb the
\* elements of a and of b dropped since the last match
EditSpans(ops, k, ai, bi, na, nb, spans) ==
    IF k > Len(ops) THEN FlushEdits(spans, ai, bi, na, nb)
    ELSE IF ops[k] = "A" THEN EditSpans(ops, k + 1, ai + 1, bi, na + 1, nb, spans)
    ELSE IF ops[k] = "B" THEN EditSpans(ops, k + 1, ai, bi + 1, na, nb + 1, spans)
    ELSE LET fl == FlushEdits(spans, ai, bi, na, nb)
             n == Len(fl)
             ext == n > 0 /\ fl[n].type = DIFF_MATCH
         IN  EditSpans(ops, k + 1, ai + 1, bi + 1, 0, 0,
                 IF ext THEN [fl EXCEPT ![n].len = @ + 1]
                 ELSE Append(fl, [type |-> DIFF_MATCH, off |-> ai, len |-> 1]))

\* DiffCalc<Elem>(a, b)(): spans {type, off, len}; MATCH and IN_1 offsets are in a,
\* IN_2 offsets in b; no empty span, no two consecutive spans of one type, the
\* IN_1 span before the IN_2 span of a replacement
DiffCalc(a, b) ==
    LET T == LcsTable(a, b, Len(a), <<[j \in 1..(Len(b) + 1) |-> 0]>>)
    IN  EditSpans(LcsWalk(a, b, T, 1, 1), 1, 0, 0, 0, 0, <<>>)

-----------------------------------------------------------------------------
(* blockDiffInfo and move detection.  A diffInfo* is the 1-based index of the     *)
(* block in cmpInfo.blockDiffs, 0 is nullptr; line offsets are 0-based as in the  *)
(* source and line hashes are read at offset + 1.                                 *)

blockDiffInfo == [matchBlock |-> 0, changedLines |-> <<>>, matches |-> <<>>]

Min(S) == CHOOSE x \in S : \A y \in S : x <= y

\* blockDiffInfo::matchedSection: length and isMoved of the first match holding line
matchedSection(info, line) ==
    LET hits == {k \in 1..Len(info.matches) :
                    /\ line >= info.matches[k].sec.off
                    /\ line <= info.matches[k].sec.off + info.matches[k].sec.len - 1}
    IN  IF hits = {} THEN [len |-> 0, isMoved |-> FALSE]
        ELSE [len |-> info.matches[Min(hits)].sec.len,
              isMoved |-> info.matches[Min(hits)].moved]

RECURSIVE MatchBegin(_, _, _, _, _, _)
\* findMatches: "check for the beginning of the matched block"
MatchBegin(bds, lh1, lh2, d1, d2, st) ==
    IF /\ st.start1 >= 0
       /\ st.start2 >= 0
       /\ matchedSection(bds[d2].info, st.start2).len = 0
       /\ lh1[bds[d1].off + st.start1 + 1] = lh2[bds[d2].off + st.start2 + 1]
    THEN MatchBegin(bds, lh1, lh2, d1, d2,
                    [start1 |-> st.start1 - 1, start2 |-> st.start2 - 1])
    ELSE st

RECURSIVE MatchEnd(_, _, _, _, _, _)
\* findMatches: "check for the end of the matched block"
MatchEnd(bds, lh1, lh2, d1, d2, st) ==
    IF /\ st.end1 < bds[d1].len
       /\ st.end2 < bds[d2].len
       /\ matchedSection(bds[d2].info, st.end2).len = 0
       /\ lh1[bds[d1].off + st.end1 + 1] = lh2[bds[d2].off + st.end2 + 1]
    THEN MatchEnd(bds, lh1, lh2, d1, d2, [end1 |-> st.end1 + 1, end2 |-> st.end2 + 1])
    ELSE st

\* findMatches: what a candidate of matchLen lines at start1 / start2 of block d2 does
\* to mi and minMatchLen
MatchCandidate(st, d2, start1, start2, matchLen) ==
    IF st.mi.sec.len > matchLen THEN st
    ELSE IF st.mi.sec.len < matchLen
         THEN [mi |-> [sec |-> section_t(start1, matchLen),
                       matchesIn1 |-> st.mi.matchesIn1,
                       matchesIn2 |-> <<[diff |-> d2, off |-> start2]>>],
               minMatchLen |-> matchLen,
               ei2 |-> start2 + matchLen - 1]
         ELSE [mi |-> [st.mi EXCEPT !.matchesIn2 = Append(@, [diff |-> d2, off |-> start2])],
               minMatchLen |-> st.minMatchLen,
               ei2 |-> start2 + matchLen - 1]

RECURSIVE findMatchesIn(_, _, _, _, _, _, _)
\* findMatches: the loop over the elements ei2 of one DIFF_IN_2 block d2
findMatchesIn(bds, lh1, lh2, d1, ei1, d2, st) ==
    IF ~(bds[d2].len - st.ei2 >= st.minMatchLen) THEN st
    ELSE IF lh1[bds[d1].off + ei1 + 1] # lh2[bds[d2].off + st.ei2 + 1]
         THEN findMatchesIn(bds, lh1, lh2, d1, ei1, d2, [st EXCEPT !.ei2 = @ + 1])
    ELSE IF matchedSection(bds[d2].info, st.ei2).len # 0
         THEN findMatchesIn(bds, lh1, lh2, d1, ei1, d2,
                  [st EXCEPT !.ei2 = @ + (matchedSection(bds[d2].info, st.ei2).len - 1) + 1])
    ELSE LET \* b, e: where the two extension loops stop
             Extended(b, e) ==
                 MatchCandidate(st, d2, b.start1 + 1, b.start2 + 1,
                                (e.end1 - 1) - (b.start1 + 1) + 1)
             Continue(st1) ==
                 findMatchesIn(bds, lh1, lh2, d1, ei1, d2, [st1 EXCEPT !.ei2 = @ + 1])
         IN  Continue(Extended(
                 MatchBegin(bds, lh1, lh2, d1, d2,
                            [start1 |-> ei1 - 1, start2 |-> st.ei2 - 1]),
                 MatchEnd(bds, lh1, lh2, d1, d2,
                          [end1 |-> ei1 + 1, end2 |-> st.ei2 + 1])))

RECURSIVE findMatchesFrom(_, _, _, _, _, _, _)
\* findMatches: the loop over the blocks of cmpInfo.blockDiffs
findMatchesFrom(bds, lh1, lh2, d1, ei1, d2, st) ==
    IF d2 > Len(bds) THEN st.mi
    ELSE IF bds[d2].type # DIFF_IN_2
         THEN findMatchesFrom(bds, lh1, lh2, d1, ei1, d2 + 1, st)
         ELSE findMatchesFrom(bds, lh1, lh2, d1, ei1, d2 + 1,
                  findMatchesIn(bds, lh1, lh2, d1, ei1, d2, [st EXCEPT !.ei2 = 0]))

\* findMatches: the best matching sections in the DIFF_IN_2 blocks that contain
\* element ei1 of block d1
findMatches(bds, lh1, lh2, d1, ei1) ==
    findMatchesFrom(bds, lh1, lh2, d1, ei1, 1,
        [mi |-> [sec |-> section_t(0, 0), matchesIn1 |-> <<>>, matchesIn2 |-> <<>>],
         minMatchLen |-> 1, ei2 |-> 0])

\* findBetterMatch: "check if those are actually one and the same block"
SameBlock(bds, lh1, best, d, mi) ==
    \A k \in 0..(mi.sec.len - 1) :
        lh1[bds[best.bestMatchDiff].off + best.best_mi.sec.off + k + 1]
            = lh1[bds[d].off + mi.sec.off + k + 1]

RECURSIVE findBetterMatchLoop(_, _, _, _, _, _)
\* findBetterMatch: the loop over the elements i of DIFF_IN_1 block d;
\* best = [ei, bestMatchDiff, best_mi]
findBetterMatchLoop(bds, lh1, lh2, d, i, best) ==
    IF ~(bds[d].len - i >= best.best_mi.sec.len) THEN best
    ELSE IF lh1[bds[d].off + i + 1] # lh1[bds[best.bestMatchDiff].off + best.ei + 1]
         THEN findBetterMatchLoop(bds, lh1, lh2, d, i + 1, best)
    ELSE IF matchedSection(bds[d].info, i).len # 0
         THEN findBetterMatchLoop(bds, lh1, lh2, d,
                  i + (matchedSection(bds[d].info, i).len - 1) + 1, best)
    ELSE LET Alternative(mi) ==
                 IF mi.sec.len = 0
                 THEN findBetterMatchLoop(bds, lh1, lh2, d, i + 1, best)
                 ELSE IF best.best_mi.sec.len < mi.sec.len
                 THEN findBetterMatchLoop(bds, lh1, lh2, d,
                          (mi.sec.off + mi.sec.len - 1) + 1,
                          [ei |-> i, bestMatchDiff |-> d, best_mi |-> mi])
                 ELSE IF best.best_mi.sec.len = mi.sec.len
                         /\ SameBlock(bds, lh1, best, d, mi)
                 THEN findBetterMatchLoop(bds, lh1, lh2, d,
                          (mi.sec.off + mi.sec.len - 1) + 1,
                          [best EXCEPT !.best_mi.matchesIn1 =
                                           Append(@, [diff |-> d, off |-> mi.sec.off])])
                 ELSE findBetterMatchLoop(bds, lh1, lh2, d, i + 1, best)
         IN  Alternative(findMatches(bds, lh1, lh2, d, i))

\* findBetterMatch: scan DIFF_IN_1 block d for a better or equal sub-block
findBetterMatch(bds, lh1, lh2, d, best) ==
    findBetterMatchLoop(bds, lh1, lh2, d,
        IF d = best.bestMatchDiff THEN best.best_mi.sec.off + best.best_mi.sec.len ELSE 0,
        best)

RECURSIVE findBetterInLater(_, _, _, _, _)
\* findMoves: "search for the same element in different diff1 block"
findBetterInLater(bds, lh1, lh2, di2, best) ==
    IF di2 > Len(bds) THEN best
    ELSE findBetterInLater(bds, lh1, lh2, di2 + 1,
             IF bds[di2].type = DIFF_IN_1
             THEN findBetterMatch(bds, lh1, lh2, di2, best)
             ELSE best)

\* a mutation of isMovedRun: the "+ 1" is forgotten
isMovedRunForgetsOne(best_mi) ==
    /\ Len(best_mi.matchesIn1) = Len(best_mi.matchesIn2)
    /\ ~(best_mi.sec.len = 1 /\ Len(best_mi.matchesIn2) > 1)

\* findMoves: the moved flag of the run best_mi
isMovedRun(best_mi) ==
    /\ Len(best_mi.matchesIn1) + 1 = Len(best_mi.matchesIn2)
    /\ ~(best_mi.sec.len = 1 /\ Len(best_mi.matchesIn2) > 1)

\* a mutation of addMatch: the end offset of the run is stored as its length
addMatchEndOffset(bds, d, off, len, isMoved) ==
    [bds EXCEPT ![d].info.matches =
        Append(@, [sec |-> section_t(off, off + len), moved |-> isMoved])]

\* findMoves: one emplace_back into the matches of block d
addMatch(bds, d, off, len, isMoved) ==
    [bds EXCEPT ![d].info.matches =
        Append(@, [sec |-> section_t(off, len), moved |-> isMoved])]

RECURSIVE addMatches(_, _, _, _, _)
\* findMoves: one emplace_back per entry of matchesIn1 / matchesIn2
addMatches(bds, ms, k, len, isMoved) ==
    IF k > Len(ms) THEN bds
    ELSE addMatches(addMatch(bds, ms[k].diff, ms[k].off, len, isMoved),
                    ms, k + 1, len, isMoved)

\* a mutation of commitMatch: the run is not recorded in the blocks of its targets
commitMatchSourcesOnly(bds, best, isMoved) ==
    addMatches(addMatch(bds, best.bestMatchDiff, best.best_mi.sec.off,
                        best.best_mi.sec.len, isMoved),
               best.best_mi.matchesIn1, 1, best.best_mi.sec.len, isMoved)

\* findMoves: the three emplace_back loops that record the run in every block
commitMatch(bds, best, isMoved) ==
    LET mi == best.best_mi
        b0 == addMatch(bds, best.bestMatchDiff, mi.sec.off, mi.sec.len, isMoved)
        b1 == addMatches(b0, mi.matchesIn1, 1, mi.sec.len, isMoved)
    IN  addMatches(b1, mi.matchesIn2, 1, mi.sec.len, isMoved)

NoCommit == [made |-> FALSE]

\* a mutation of skipBlank: no line is skipped as blank
skipBlankNever(bds, lh1, di1, ei1) == FALSE

\* findMoves: "Skip blanks" - element ei1 of block di1 hashes to the seed
skipBlank(bds, lh1, di1, ei1) == lh1[bds[di1].off + ei1 + 1] = cHashSeed

\* findMoves: the body of the loop over the elements ei1 of DIFF_IN_1 block di1.
\* Gives the blocks, the value of ei1 before the loop's ++ei1 and the run committed.
findMovesBody(bds, lh1, lh2, di1, ei1) ==
    IF matchedSection(bds[di1].info, ei1).len # 0
    THEN [bds |-> bds, ei1 |-> ei1 + (matchedSection(bds[di1].info, ei1).len - 1),
          commit |-> NoCommit]
    ELSE IF skipBlank(bds, lh1, di1, ei1)
         THEN [bds |-> bds, ei1 |-> ei1, commit |-> NoCommit]
    ELSE LET \* best = [bmi, bestMatchDiff, best_mi] after the scans for a better match
             Commit(best) ==
                 [bds |-> commitMatch(bds, best, isMovedRun(best.best_mi)),
                  ei1 |-> IF best.bestMatchDiff = di1 /\ best.ei = ei1
                          THEN best.best_mi.sec.off + best.best_mi.sec.len - 1
                          ELSE ei1 - 1,
                  commit |-> [made |-> TRUE, di1 |-> di1, ei1 |-> ei1,
                              best |-> best, isMoved |-> isMovedRun(best.best_mi)]]
             Matched(mi0) ==
                 IF mi0.sec.len = 0
                 THEN [bds |-> bds, ei1 |-> ei1, commit |-> NoCommit]
                 ELSE Commit(findBetterInLater(bds, lh1, lh2, di1 + 1,
                          findBetterMatch(bds, lh1, lh2, di1,
                              [ei |-> ei1, bestMatchDiff |-> di1, best_mi |-> mi0])))
         IN  Matched(findMatches(bds, lh1, lh2, di1, ei1))

RECURSIVE findMovesPos(_, _, _)
\* findMoves: the next (di1, ei1) at which the loop body runs, from the loop heads;
\* di1 > Len(bds) when both loops have ended
findMovesPos(bds, di1, ei1) ==
    IF di1 > Len(bds) THEN [di1 |-> di1, ei1 |-> 0]
    ELSE IF bds[di1].type = DIFF_IN_1 /\ ei1 < bds[di1].len
         THEN [di1 |-> di1, ei1 |-> ei1]
         ELSE findMovesPos(bds, di1 + 1, 0)

-----------------------------------------------------------------------------
(* Block pairing: compareBlocks and compareLines *)

WordHashes(words) == [k \in 1..Len(words) |-> words[k].hash]

\* the word diff of a line pair, the line with more words first
WordsDiff(w1, w2) ==
    IF Len(w1) < Len(w2) THEN DiffCalc(WordHashes(w2), WordHashes(w1))
    ELSE DiffCalc(WordHashes(w1), WordHashes(w2))

LineLen(words) == SumSeq([k \in 1..Len(words) |-> words[k].length])

\* compareBlocks: the convergence of chunk1[line1] and chunk2[line2]; line1Len is the
\* running value of the variable of that name.  conv is -1 for a pair that is skipped.
lineConvergence(w1, w2, line1Len) ==
    LET pLine1 == IF Len(w1) < Len(w2) THEN w2 ELSE w1
        pLine2 == IF Len(w1) < Len(w2) THEN w1 ELSE w2
    IN  IF Len(pLine1) > 2 * Len(pLine2)
        THEN [conv |-> -1, line1Len |-> line1Len]
        ELSE LET linesDiff == WordsDiff(w1, w2)
                 line2Len == LineLen(w2)
                 len1 == IF line1Len < line2Len THEN line2Len ELSE line1Len
                 matched == {k \in 1..Len(linesDiff) : linesDiff[k].type = DIFF_MATCH}
                 words == SumSeq([k \in 1..Len(linesDiff) |->
                              IF k \in matched THEN linesDiff[k].len ELSE 0])
                 bytes == SumSeq([k \in 1..Len(linesDiff) |->
                              IF k \in matched
                              THEN SumSeq([i \in 1..linesDiff[k].len |->
                                       pLine1[linesDiff[k].off + i].length])
                              ELSE 0])
                 linesConvergence == (words * 100) \div Len(pLine1)
                 linesLenConvergence == (bytes * 100) \div len1
             IN  [conv |-> Max(linesConvergence, linesLenConvergence), line1Len |-> len1]

RECURSIVE convergenceLine2(_, _, _, _, _, _, _)
\* compareBlocks: the loop over line2 for one line1; acc is the set of conv_key
convergenceLine2(bd1, bd2, chunk1, chunk2, line1, line2, st) ==
    IF line2 >= Len(chunk2) THEN st.acc
    ELSE IF chunk2[line2 + 1] = <<>>
         THEN convergenceLine2(bd1, bd2, chunk1, chunk2, line1, line2 + 1, st)
    ELSE LET m == matchedSection(bd2.info, line2) IN
         IF m.len # 0 /\ m.isMoved
         THEN convergenceLine2(bd1, bd2, chunk1, chunk2, line1, line2 + (m.len - 1) + 1, st)
    ELSE LET c == lineConvergence(chunk1[line1 + 1], chunk2[line2 + 1], st.line1Len) IN
         convergenceLine2(bd1, bd2, chunk1, chunk2, line1, line2 + 1,
             [line1Len |-> c.line1Len,
              acc |-> IF c.conv >= 50
                      THEN st.acc \cup {[convergence |-> c.conv, line1 |-> line1,
                                         line2 |-> line2]}
                      ELSE st.acc])

RECURSIVE convergenceLine1(_, _, _, _, _, _)
\* compareBlocks: the loop over line1 that fills orderedLinesConvergence
convergenceLine1(bd1, bd2, chunk1, chunk2, line1, acc) ==
    IF line1 >= Len(chunk1) THEN acc
    ELSE IF chunk1[line1 + 1] = <<>>
         THEN convergenceLine1(bd1, bd2, chunk1, chunk2, line1 + 1, acc)
    ELSE LET m == matchedSection(bd1.info, line1) IN
         IF m.len # 0 /\ m.isMoved
         THEN convergenceLine1(bd1, bd2, chunk1, chunk2, line1 + (m.len - 1) + 1, acc)
         ELSE convergenceLine1(bd1, bd2, chunk1, chunk2, line1 + 1,
                  convergenceLine2(bd1, bd2, chunk1, chunk2, line1, 0,
                      [line1Len |-> LineLen(chunk1[line1 + 1]), acc |-> acc]))

\* conv_key::operator<
convKeyLess(a, b) ==
    \/ a.convergence > b.convergence
    \/ /\ a.convergence = b.convergence
       /\ \/ a.line1 < b.line1
          \/ a.line1 = b.line1 /\ a.line2 < b.line2

RECURSIVE orderedSet(_)
\* the elements of a std::set<conv_key> in iteration order
orderedSet(S) ==
    IF S = {} THEN <<>>
    ELSE LET x == CHOOSE a \in S : \A b \in S \ {a} : convKeyLess(a, b)
         IN  <<x>> \o orderedSet(S \ {x})

RECURSIVE greedyMapping(_, _, _, _, _, _)
\* compareBlocks: the loop from startItr that fills lineMappings (line1 -> conv_key);
\* st = [map, n1, n2] with the mapped lines being those in the map
greedyMapping(ordered, k, linesCount1, linesCount2, st, used2) ==
    IF k > Len(ordered) THEN st.map
    ELSE LET oc == ordered[k] IN
         IF oc.line1 \notin DOMAIN st.map /\ oc.line2 \notin used2
         THEN LET map1 == [l \in DOMAIN st.map \cup {oc.line1} |->
                              IF l = oc.line1 THEN oc ELSE st.map[l]]
              IN  IF st.n1 + 1 = linesCount1 \/ st.n2 + 1 = linesCount2
                  THEN map1
                  ELSE greedyMapping(ordered, k + 1, linesCount1, linesCount2,
                           [map |-> map1, n1 |-> st.n1 + 1, n2 |-> st.n2 + 1],
                           used2 \cup {oc.line2})
         ELSE greedyMapping(ordered, k + 1, linesCount1, linesCount2, st, used2)

\* the lines1 of a mapping in ascending order
mappedLines1(map) ==
    LET RECURSIVE asc(_)
        asc(S) == IF S = {} THEN <<>> ELSE <<Min(S)>> \o asc(S \ {Min(S)})
    IN  asc(DOMAIN map)

RECURSIVE monotonePairs(_, _, _, _)
\* the pairs of a mapping, lines1 ascending, whose line2 is above every line2 kept before
monotonePairs(map, l1s, k, lastLine2) ==
    IF k > Len(l1s) THEN <<>>
    ELSE IF map[l1s[k]].line2 > lastLine2
         THEN <<map[l1s[k]]>> \o monotonePairs(map, l1s, k + 1, map[l1s[k]].line2)
         ELSE monotonePairs(map, l1s, k + 1, lastLine2)

\* compareBlocks: currentBlockConvergence of a mapping
blockConvergence(map) ==
    LET kept == monotonePairs(map, mappedLines1(map), 1, -1)
    IN  SumSeq([k \in 1..Len(kept) |-> kept[k].convergence])

RECURSIVE bestMapping(_, _, _, _, _)
\* compareBlocks: the loop over startItr that keeps the mapping of the best convergence
bestMapping(ordered, start, linesCount1, linesCount2, best) ==
    IF start > Len(ordered) THEN best.map
    ELSE LET map == greedyMapping(ordered, start, linesCount1, linesCount2,
                        [map |-> <<>>, n1 |-> 0, n2 |-> 0], {})
             cur == blockConvergence(map)
         IN  bestMapping(ordered, start + 1, linesCount1, linesCount2,
                 IF best.conv < cur THEN [conv |-> cur, map |-> map] ELSE best)

\* compareLines: the sections of the words of w that the spans of one type cover
changedSections(linesDiff, type, w) ==
    LET ks == SelectSeq([k \in 1..Len(linesDiff) |-> k],
                        LAMBDA k : linesDiff[k].type = type)
    IN  [n \in 1..Len(ks) |->
            LET ld == linesDiff[ks[n]]
                firstW == w[ld.off + 1]
                lastW == w[ld.off + ld.len]
            IN  section_t(firstW.pos, lastW.pos - firstW.pos + lastW.length)]

\* a mutation of changedLinePair: the blocks and the word vectors are swapped for a
\* second line with more words, the line numbers are not
changedLinePairKeepLines(chunk1, chunk2, line1, line2) ==
    LET Entries(swapped, pLine1, pLine2) ==
            LET Changed(linesDiff) ==
                    LET p1 == [line |-> line1,
                               changes |-> changedSections(linesDiff, DIFF_IN_1, pLine1)]
                        p2 == [line |-> line2,
                               changes |-> changedSections(linesDiff, DIFF_IN_2, pLine2)]
                    IN  [same |-> Len(linesDiff) = 1 /\ linesDiff[1].type = DIFF_MATCH,
                         cl1 |-> IF swapped THEN p2 ELSE p1,
                         cl2 |-> IF swapped THEN p1 ELSE p2]
            IN  Changed(DiffCalc(WordHashes(pLine1), WordHashes(pLine2)))
    IN  IF Len(chunk1[line1 + 1]) < Len(chunk2[line2 + 1])
        THEN Entries(TRUE, chunk2[line2 + 1], chunk1[line1 + 1])
        ELSE Entries(FALSE, chunk1[line1 + 1], chunk2[line2 + 1])

\* compareLines: the body of the loop for the mapped pair (line1, line2).  same: the
\* word diff is a single DIFF_MATCH; cl1, cl2: the diffLine that blockDiff1 and the
\* one that blockDiff2 receive.  pLine1 is the line with more words; p1, p2 are what
\* pBlockDiff1, pBlockDiff2 receive, with the line numbers swapped like the blocks.
changedLinePair(chunk1, chunk2, line1, line2) ==
    LET Entries(swapped, pLine1, pLine2) ==
            LET Changed(linesDiff) ==
                    LET p1 == [line |-> IF swapped THEN line2 ELSE line1,
                               changes |-> changedSections(linesDiff, DIFF_IN_1, pLine1)]
                        p2 == [line |-> IF swapped THEN line1 ELSE line2,
                               changes |-> changedSections(linesDiff, DIFF_IN_2, pLine2)]
                    IN  [same |-> Len(linesDiff) = 1 /\ linesDiff[1].type = DIFF_MATCH,
                         cl1 |-> IF swapped THEN p2 ELSE p1,
                         cl2 |-> IF swapped THEN p1 ELSE p2]
            IN  Changed(DiffCalc(WordHashes(pLine1), WordHashes(pLine2)))
    IN  IF Len(chunk1[line1 + 1]) < Len(chunk2[line2 + 1])
        THEN Entries(TRUE, chunk2[line2 + 1], chunk1[line1 + 1])
        ELSE Entries(FALSE, chunk1[line1 + 1], chunk2[line2 + 1])

RECURSIVE compareLinesLoop(_, _, _, _, _, _)
\* compareLines: the loop over lineMappings; st = [lastLine2, cl1, cl2] with the
\* changedLines of blockDiff1 and blockDiff2
compareLinesLoop(chunk1, chunk2, map, l1s, k, st) ==
    IF k > Len(l1s) THEN st
    ELSE IF map[l1s[k]].line2 <= st.lastLine2
         THEN compareLinesLoop(chunk1, chunk2, map, l1s, k + 1, st)
    ELSE LET Appended(r) ==
                 compareLinesLoop(chunk1, chunk2, map, l1s, k + 1,
                     IF r.same THEN [st EXCEPT !.lastLine2 = map[l1s[k]].line2]
                     ELSE [lastLine2 |-> map[l1s[k]].line2,
                           cl1 |-> Append(st.cl1, r.cl1),
                           cl2 |-> Append(st.cl2, r.cl2)])
         IN  Appended(changedLinePair(chunk1, chunk2, l1s[k], map[l1s[k]].line2))

\* compareLines: the changedLines appended to blockDiff1 and blockDiff2
compareLines(cl1, cl2, chunk1, chunk2, lineMappings) ==
    compareLinesLoop(chunk1, chunk2, lineMappings, mappedLines1(lineMappings), 1,
                     [lastLine2 |-> -1, cl1 |-> cl1, cl2 |-> cl2])

\* compareBlocks: the best line mapping of blocks b1 (DIFF_IN_1) and b2 (DIFF_IN_2)
bestLineMappings(bd1, bd2, chunk1, chunk2) ==
    LET ordered == orderedSet(convergenceLine1(bd1, bd2, chunk1, chunk2, 0, {}))
    IN  bestMapping(ordered, 1, Len(chunk1), Len(chunk2), [conv |-> 0, map |-> <<>>])

\* compareBlocks on blocks b1, b2 of bds; doc1, doc2 are the texts of the two views
compareBlocks(doc1, doc2, settings, bds, b1, b2) ==
    LET chunk1 == getWords(bds[b1].off, bds[b1].len, doc1, settings)
        chunk2 == getWords(bds[b2].off, bds[b2].len, doc2, settings)
        best == bestLineMappings(bds[b1], bds[b2], chunk1, chunk2)
    IN  IF DOMAIN best = {} THEN bds
        ELSE LET r == compareLines(bds[b1].info.changedLines, bds[b2].info.changedLines,
                                   chunk1, chunk2, best)
             IN  [bds EXCEPT ![b1].info.changedLines = r.cl1,
                             ![b2].info.changedLines = r.cl2]

-----------------------------------------------------------------------------
(* Marking: markSection, markLineDiffs and the loop body of markAllDiffs.        *)
(* A marker is a call SCI_MARKERADDSET(line, mask) on a view.                    *)

Marker(view, line, mask) == [view |-> view, line |-> line, mask |-> mask]

\* markSection: the markers of one pass of the loop, for a match of matchedLen lines
\* (0: no match) found at the line
sectionMarkers(doc, line, matchedLen, isMoved) ==
    IF matchedLen = 0 THEN <<Marker(doc.view, line, doc.blockDiffMask)>>
    ELSE IF ~isMoved
    THEN [j \in 1..matchedLen |->
             Marker(doc.view, line + j - 1,
                    IF doc.blockDiffMask = MARKER_MASK_ADDED
                    THEN MARKER_MASK_ADDED_LOCAL ELSE MARKER_MASK_REMOVED_LOCAL)]
    ELSE IF matchedLen = 1 THEN <<Marker(doc.view, line, MARKER_MASK_MOVED_LINE)>>
    ELSE <<Marker(doc.view, line, MARKER_MASK_MOVED_BEGIN)>>
             \o [j \in 1..(matchedLen - 2) |->
                    Marker(doc.view, line + j, MARKER_MASK_MOVED_MID)]
             \o <<Marker(doc.view, line + matchedLen - 1, MARKER_MASK_MOVED_END)>>

RECURSIVE markSectionLoop(_, _, _, _, _)
\* markSection: the loop over i with the running document line; acc are the markers
markSectionLoop(bd, doc, i, line, acc) ==
    IF ~(i < doc.section.off + doc.section.len) THEN acc
    ELSE LET \* matchedLen after "if (matchedLen > doc.section.len)"
             Pass(matchedLen, isMoved) ==
                 markSectionLoop(bd, doc,
                     i + (IF matchedLen = 0 \/ (isMoved /\ matchedLen = 1)
                          THEN 0 ELSE matchedLen - 1) + 1,
                     line + (IF matchedLen = 0 \/ (isMoved /\ matchedLen = 1)
                             THEN 0 ELSE matchedLen - 1) + 1,
                     acc \o sectionMarkers(doc, line, matchedLen, isMoved))
             Found(m) ==
                 Pass(IF m.len > doc.section.len THEN doc.section.len ELSE m.len,
                      m.isMoved)
         IN  Found(matchedSection(bd.info, i))

\* markSection: the markers set for doc.section of block bd
markSection(bd, doc) ==
    markSectionLoop(bd, doc, doc.section.off, bd.off + doc.section.off, <<>>)

\* markLineDiffs for one view: the text ranges marked as changed and the CHANGED marker
markLineDiffsIn(view, text, bd, lineIdx) ==
    LET line == bd.off + bd.info.changedLines[lineIdx].line
        linePos == SciPositionFromLine(text, line)
        changes == bd.info.changedLines[lineIdx].changes
    IN  [texts |-> [k \in 1..Len(changes) |->
                       [view |-> view, pos |-> linePos + changes[k].off,
                        len |-> changes[k].len]],
         markers |-> <<Marker(view, line, MARKER_MASK_CHANGED)>>]

\* a mutation of AlignmentPair: pMainAlignData stays linked to doc1 when doc1 is the
\* sub view
AlignmentPairUnlinked(doc1, a1, a2) == [main |-> a1, sub |-> a2]

\* the AlignmentPair pushed: pMainAlignData is linked to doc1 unless doc1 is the sub view
AlignmentPair(doc1, a1, a2) ==
    IF doc1.view = SUB_VIEW THEN [main |-> a2, sub |-> a1] ELSE [main |-> a1, sub |-> a2]

\* st with the mask of doc1's and of doc2's AlignmentViewData set and the pair pushed
pushAlignment(st, mask1, mask2) ==
    [st EXCEPT !.a1.diffMask = mask1,
               !.a2.diffMask = mask2,
               !.rows = Append(@, AlignmentPair(st.doc1,
                                   [line |-> st.a1.line, diffMask |-> mask1],
                                   [line |-> st.a2.line, diffMask |-> mask2]))]

\* st after markSection(bd, doc1) for a non-empty doc1.section, with the line advanced
markIn1(st, bd) ==
    IF st.doc1.section.len # 0
    THEN [st EXCEPT !.markers = @ \o markSection(bd, st.doc1),
                    !.a1.line = @ + st.doc1.section.len]
    ELSE st

\* st after markSection(mb, doc2) for a non-empty doc2.section, with the line advanced
markIn2(st, mb) ==
    IF st.doc2.section.len # 0
    THEN [st EXCEPT !.markers = @ \o markSection(mb, st.doc2),
                    !.a2.line = @ + st.doc2.section.len]
    ELSE st

\* markAllDiffs: "if (section.len || section.len)" - the row and the markers of the
\* part of a paired block before a changed line or at the end of the block.
\* st = [doc1, doc2, a1, a2, rows, markers, texts]
markPairedSections(st, bd, mb) ==
    IF st.doc1.section.len # 0 \/ st.doc2.section.len # 0
    THEN markIn2(markIn1(pushAlignment(st, st.doc1.blockDiffMask, st.doc2.blockDiffMask),
                         bd), mb)
    ELSE st

\* markAllDiffs: the CHANGED row of changed line j and markLineDiffs for it
markChangedLine(st, bd, mb, text1, text2, j) ==
    LET Marked(s1, d1, d2) ==
            [s1 EXCEPT !.texts = @ \o d1.texts \o d2.texts,
                       !.markers = @ \o d1.markers \o d2.markers,
                       !.doc1.section.off = bd.info.changedLines[j].line + 1,
                       !.doc2.section.off = mb.info.changedLines[j].line + 1,
                       !.a1.line = @ + 1,
                       !.a2.line = @ + 1]
    IN  Marked(pushAlignment(st, MARKER_MASK_CHANGED, MARKER_MASK_CHANGED),
               markLineDiffsIn(st.doc1.view, text1, bd, j),
               markLineDiffsIn(st.doc2.view, text2, mb, j))

RECURSIVE markChangedLines(_, _, _, _, _, _)
\* markAllDiffs: the loop over the changed lines j of a paired DIFF_IN_1 block
markChangedLines(st, bd, mb, text1, text2, j) ==
    IF j > Len(bd.info.changedLines) THEN st
    ELSE markChangedLines(
             markChangedLine(
                 markPairedSections(
                     [st EXCEPT !.doc1.section.len =
                                    bd.info.changedLines[j].line - st.doc1.section.off,
                                !.doc2.section.len =
                                    mb.info.changedLines[j].line - st.doc2.section.off],
                     bd, mb),
                 bd, mb, text1, text2, j),
             bd, mb, text1, text2, j + 1)

\* markAllDiffs: the rest of a paired block after its last changed line
markPairedRest(st, bd, mb) ==
    markPairedSections(
        [st EXCEPT !.doc1.section.len = bd.len - st.doc1.section.off,
                   !.doc2.section.len = mb.len - st.doc2.section.off],
        bd, mb)

\* markAllDiffs: a DIFF_IN_2 block, or a DIFF_IN_1 block that has no matchBlock
markUnpaired(st, bd, in1) ==
    LET Marked(s1) ==
            IF in1
            THEN [s1 EXCEPT !.markers = @ \o markSection(bd, s1.doc1),
                            !.a1.line = @ + bd.len]
            ELSE [s1 EXCEPT !.markers = @ \o markSection(bd, s1.doc2),
                            !.a2.line = @ + bd.len]
        \* markSection comes before the push; neither reads what the other writes
        Sectioned(s0) ==
            Marked(pushAlignment(s0, IF in1 THEN s0.doc1.blockDiffMask ELSE NoMask,
                                     IF in1 THEN NoMask ELSE s0.doc2.blockDiffMask))
    IN  Sectioned(IF in1 THEN [st EXCEPT !.doc1.section = section_t(0, bd.len)]
                  ELSE [st EXCEPT !.doc2.section = section_t(0, bd.len)])

\* markAllDiffs: the body of the loop over the blocks for block i (1-based);
\* gives the new st and the blocks consumed (2 for a paired block)
markBlock(st, bds, i, text1, text2) ==
    IF bds[i].type = DIFF_MATCH
    THEN [st |-> [pushAlignment(st, NoMask, NoMask) EXCEPT
                      !.a1.line = @ + bds[i].len, !.a2.line = @ + bds[i].len],
          used |-> 1]
    ELSE IF bds[i].type = DIFF_IN_2
    THEN [st |-> markUnpaired(st, bds[i], FALSE), used |-> 1]
    ELSE IF bds[i].info.matchBlock # 0
    THEN [st |-> markPairedRest(
                     markChangedLines(
                         [st EXCEPT !.doc1.section.off = 0, !.doc2.section.off = 0],
                         bds[i], bds[bds[i].info.matchBlock], text1, text2, 1),
                     bds[i], bds[bds[i].info.matchBlock]),
          used |-> 2]
    ELSE [st |-> markUnpaired(st, bds[i], TRUE), used |-> 1]

-----------------------------------------------------------------------------
(* Find-unique mode *)

\* runFindUnique: the unordered_map from line hash to the lines that have it
uniqueLines(lineHashes) ==
    [h \in Range(lineHashes) |-> {i \in 0..(Len(lineHashes) - 1) : lineHashes[i + 1] = h}]

\* a mutation of linesNotIn: only the first line of every hash is taken
linesNotInFirst(map, other) ==
    {Min(map[h]) : h \in DOMAIN map \ DOMAIN other}

\* the lines of a map whose hash is not a key of the other map
linesNotIn(map, other) ==
    UNION {map[h] : h \in DOMAIN map \ DOMAIN other}

\* a set of lines as markers of one view, by ascending line (the iteration order of
\* an unordered_map is unspecified; the markers are bits set on lines)
RECURSIVE uniqueMarkers(_, _)
uniqueMarkers(doc, lines) ==
    IF lines = {} THEN <<>>
    ELSE <<Marker(doc.view, Min(lines) + doc.section.off, doc.blockDiffMask)>>
             \o uniqueMarkers(doc, lines \ {Min(lines)})

-----------------------------------------------------------------------------
(* State of one call of compareViews *)

Views == {MAIN_VIEW, SUB_VIEW}

NoDoc == [view |-> MAIN_VIEW, section |-> section_t(0, 0), blockDiffMask |-> NoMask]
NoAlign == [line |-> 0, diffMask |-> NoMask]
NoFirst == [made |-> FALSE]

cmpInit ==
    [doc1 |-> NoDoc, doc2 |-> NoDoc, selectionCompare |-> FALSE,
     blockDiffs |-> <<>>, lineHashes1 |-> <<>>, lineHashes2 |-> <<>>,
     i |-> 0, di1 |-> 0, ei1 |-> 0, commit |-> NoCommit,
     a1 |-> NoAlign, a2 |-> NoAlign,
     doc1UniqueLines |-> <<>>, doc2UniqueLines |-> <<>>]

\* cancelled: some Advance() or NextPhase() of this compare has answered false;
\* requested: the user has pressed Cancel on the dialog
progressInit ==
    [exists |-> FALSE, opened |-> 0, closed |-> 0, maxCount |-> 0, cancelled |-> FALSE,
     requested |-> FALSE]

outInit(in) ==
    [markers |-> <<>>, texts |-> <<>>, alignmentInfo |-> in.alignmentInfo,
     result |-> COMPARE_ERROR, msgBoxes |-> 0]

\* the lines Scintilla counts in a text, as computeLineHashes reads them
LineCount(text) == IF SciGetLength(text) # 0 THEN SciGetLineCount(text) ELSE 0

\* the argument lists of compareViews with the state of the two views; a section
\* begins inside its document
Inputs(Texts, Sections, Settings, Modes, ProgressInfos, Stale, Flags) ==
    {in \in
        {[views |-> [v \in Views |->
                        [text |-> IF v = MAIN_VIEW THEN t[1] ELSE t[2],
                         modified |-> IF v = MAIN_VIEW THEN f[1] ELSE f[2],
                         readOnly |-> f[3]]],
          mainViewSection |-> sec[1], subViewSection |-> sec[2],
          findUniqueMode |-> m, settings |-> s, progressInfo |-> p,
          alignmentInfo |-> a] :
            t \in Texts, sec \in Sections, s \in Settings, m \in Modes,
            p \in ProgressInfos, a \in Stale, f \in Flags} :
        /\ in.mainViewSection.off <= LineCount(in.views[MAIN_VIEW].text)
        /\ in.subViewSection.off <= LineCount(in.views[SUB_VIEW].text)}

InitOf(In) ==
    /\ input \in In
    /\ views = input.views
    /\ pc = "start"
    /\ progress = progressInit
    /\ cmp = cmpInit
    /\ out = outInit(input)
    /\ first = NoFirst

\* the answers the progress collaborator can give to Advance() / NextPhase()
Answers ==
    IF ~progress.exists THEN {TRUE}
    ELSE IF progress.requested THEN {FALSE}
    ELSE BOOLEAN

\* "progress && !progress->X()" for the answer ok
Cancels(ok) == progress.exists /\ ~ok

-----------------------------------------------------------------------------
(* compareViews and runCompare *)

\* compareViews up to the call of runCompare / runFindUnique, and the prologue of
\* the function called
CompareViewsOpen ==
    /\ pc = "start"
    /\ progress' = IF input.progressInfo
                   THEN [progress EXCEPT !.exists = TRUE, !.opened = @ + 1]
                   ELSE progress
    /\ LET oldMain == input.settings.OldFileViewId = MAIN_VIEW IN
       cmp' = [cmpInit EXCEPT
                  !.doc1 = [view |-> MAIN_VIEW, section |-> input.mainViewSection,
                            blockDiffMask |-> IF oldMain THEN MARKER_MASK_REMOVED
                                              ELSE MARKER_MASK_ADDED],
                  !.doc2 = [view |-> SUB_VIEW, section |-> input.subViewSection,
                            blockDiffMask |-> IF oldMain THEN MARKER_MASK_ADDED
                                              ELSE MARKER_MASK_REMOVED],
                  !.selectionCompare = (input.mainViewSection.len # 0
                                        \/ input.subViewSection.len # 0)]
    /\ out' = [out EXCEPT !.result = COMPARE_ERROR,
                          !.alignmentInfo = IF input.findUniqueMode THEN <<>> ELSE @]
    /\ pc' = IF input.findUniqueMode THEN "uhash1" ELSE "hash1"
    /\ UNCHANGED <<input, views, first>>

\* computeLineHashes(doc d) followed by "if (progress && !progress->NextPhase())
\* return COMPARE_CANCELLED"
HashStep(d, nextPc) ==
    \E advance \in Answers, ok \in Answers :
        LET doc == IF d = 1 THEN cmp.doc1 ELSE cmp.doc2
            r == computeLineHashes(views[doc.view].text, doc.section, input.settings,
                                   progress.exists, advance)
            called == progress.exists /\ SectionFor(views[doc.view].text, doc.section).len > 0
        IN  /\ cmp' = IF d = 1
                      THEN [cmp EXCEPT !.doc1.section = r.section, !.lineHashes1 = r.hashes]
                      ELSE [cmp EXCEPT !.doc2.section = r.section, !.lineHashes2 = r.hashes]
            /\ progress' = [progress EXCEPT
                   !.maxCount = IF progress.exists
                                THEN (SectionFor(views[doc.view].text, doc.section).len
                                          \div monitorCancelEveryXLine) + 1
                                ELSE @,
                   !.cancelled = @ \/ (called /\ ~advance) \/ Cancels(ok)]
            /\ pc' = IF Cancels(ok) THEN "return" ELSE nextPc
            /\ out' = IF Cancels(ok) THEN [out EXCEPT !.result = COMPARE_CANCELLED] ELSE out
            /\ UNCHANGED <<input, views, first>>

HashDoc1 == pc = "hash1" /\ HashStep(1, "hash2")

HashDoc2 == pc = "hash2" /\ HashStep(2, "diff")

\* runCompare: the swap of the documents, DiffCalc on the line hashes and the
\* return of COMPARE_MATCH
RunDiffCalc ==
    /\ pc = "diff"
    /\ LET swap == Len(cmp.lineHashes1) < Len(cmp.lineHashes2)
           lh1 == IF swap THEN cmp.lineHashes2 ELSE cmp.lineHashes1
           lh2 == IF swap THEN cmp.lineHashes1 ELSE cmp.lineHashes2
           spans == DiffCalc(lh1, lh2)
           bds == [k \in 1..Len(spans) |->
                      [type |-> spans[k].type, off |-> spans[k].off, len |-> spans[k].len,
                       info |-> blockDiffInfo]]
           match == Len(bds) = 1 /\ bds[1].type = DIFF_MATCH
           pos == findMovesPos(bds, 1, 0)
       IN  /\ cmp' = [cmp EXCEPT !.lineHashes1 = lh1, !.lineHashes2 = lh2,
                                 !.doc1 = IF swap THEN cmp.doc2 ELSE cmp.doc1,
                                 !.doc2 = IF swap THEN cmp.doc1 ELSE cmp.doc2,
                                 !.blockDiffs = bds, !.di1 = pos.di1, !.ei1 = pos.ei1]
           /\ pc' = IF match THEN "return"
                    ELSE IF input.settings.DetectMoves /\ pos.di1 <= Len(bds) THEN "moves"
                    ELSE "leading"
           /\ out' = IF match THEN [out EXCEPT !.result = COMPARE_MATCH] ELSE out
    /\ UNCHANGED <<input, views, progress, first>>

\* findMoves: one pass of the body of the inner loop, at element ei1 of block di1
FindMovesStep ==
    /\ pc = "moves"
    /\ LET Step(r, pos) ==
               /\ cmp' = [cmp EXCEPT !.blockDiffs = r.bds, !.di1 = pos.di1,
                                     !.ei1 = pos.ei1, !.commit = r.commit]
               /\ pc' = IF pos.di1 > Len(r.bds) THEN "leading" ELSE "moves"
           Body(r) == Step(r, findMovesPos(r.bds, cmp.di1, r.ei1 + 1))
       IN  Body(findMovesBody(cmp.blockDiffs, cmp.lineHashes1, cmp.lineHashes2,
                              cmp.di1, cmp.ei1))
    /\ UNCHANGED <<input, views, progress, out, first>>

\* the SCI_INSERTTEXT of runCompare inside the ScopedViewWriteEnabler, with
\* SCI_SETSAVEPOINT for a document that was not modified
insertLeadingLine(view) ==
    LET writable == [view EXCEPT !.readOnly = FALSE]
        inserted == [writable EXCEPT !.text = SciInsertNewlineAtOrigin(@),
                                     !.modified = TRUE]
        saved == IF ~view.modified THEN [inserted EXCEPT !.modified = FALSE] ELSE inserted
    IN  [saved EXCEPT !.readOnly = view.readOnly]

\* runCompare: "if (cmpInfo.doc1.section.off || cmpInfo.doc2.section.off)" - the
\* block offsets in document coordinates
rebaseBlocks(bds, off1, off2) ==
    IF off1 # 0 \/ off2 # 0
    THEN [k \in 1..Len(bds) |->
             [bds[k] EXCEPT !.off = @ + (IF bds[k].type = DIFF_IN_2 THEN off2 ELSE off1)]]
    ELSE bds

\* the values a read of cmpInfo.blockDiffs[0].type can give: the read of an empty
\* vector is undefined and may give any type
FirstBlockTypes ==
    IF Len(cmp.blockDiffs) = 0 THEN {DIFF_MATCH, DIFF_IN_1, DIFF_IN_2}
    ELSE {cmp.blockDiffs[1].type}

\* runCompare: the blank line inserted at the beginning of both documents, the
\* rebase of the block offsets and the NextPhase() that follows
LeadingLine ==
    /\ pc = "leading"
    /\ \E t \in FirstBlockTypes, ok \in Answers :
        LET insert == /\ t # DIFF_MATCH
                      /\ (cmp.doc1.section.off = 0 \/ cmp.doc2.section.off = 0)
            off1 == cmp.doc1.section.off + (IF insert THEN 1 ELSE 0)
            off2 == cmp.doc2.section.off + (IF insert THEN 1 ELSE 0)
        IN  /\ views' = IF insert THEN [v \in Views |-> insertLeadingLine(views[v])]
                        ELSE views
            /\ cmp' = [cmp EXCEPT !.doc1.section.off = off1, !.doc2.section.off = off2,
                                  !.blockDiffs = rebaseBlocks(@, off1, off2),
                                  !.i = 1]
            /\ progress' = [progress EXCEPT
                   !.cancelled = @ \/ Cancels(ok),
                   !.maxCount = IF progress.exists /\ ok THEN Len(cmp.blockDiffs) ELSE @]
            /\ pc' = IF Cancels(ok) THEN "return" ELSE "blocks"
            /\ out' = IF Cancels(ok) THEN [out EXCEPT !.result = COMPARE_CANCELLED] ELSE out
    /\ UNCHANGED <<input, first>>

\* runCompare: "Do block compares" for block i with its two matchBlock pointers set
pairBlocks(bds, i, text1, text2, settings) ==
    IF bds[i].type = DIFF_IN_2 /\ i # 1 /\ bds[IF i = 1 THEN 1 ELSE i - 1].type = DIFF_IN_1
    THEN compareBlocks(text1, text2, settings,
             [bds EXCEPT ![i - 1].info.matchBlock = i, ![i].info.matchBlock = i - 1],
             i - 1, i)
    ELSE bds

\* runCompare: one pass of the loop over the blocks, with its Advance()
CompareBlock ==
    /\ pc = "blocks"
    /\ cmp.i <= Len(cmp.blockDiffs)
    /\ \E ok \in Answers :
        /\ cmp' = [cmp EXCEPT
               !.blockDiffs = pairBlocks(@, cmp.i, views[cmp.doc1.view].text,
                                         views[cmp.doc2.view].text, input.settings),
               !.i = IF Cancels(ok) THEN @ ELSE @ + 1]
        /\ progress' = [progress EXCEPT !.cancelled = @ \/ Cancels(ok)]
        /\ pc' = IF Cancels(ok) THEN "return" ELSE "blocks"
        /\ out' = IF Cancels(ok) THEN [out EXCEPT !.result = COMPARE_CANCELLED] ELSE out
    /\ UNCHANGED <<input, views, first>>

\* runCompare: the NextPhase() after the block compares and the beginning of
\* markAllDiffs up to its loop
BlocksDone ==
    /\ pc = "blocks"
    /\ cmp.i > Len(cmp.blockDiffs)
    /\ \E ok \in Answers :
        /\ cmp' = IF Cancels(ok) THEN cmp
                  ELSE [cmp EXCEPT !.i = 1,
                                   !.a1 = [line |-> cmp.doc1.section.off, diffMask |-> NoMask],
                                   !.a2 = [line |-> cmp.doc2.section.off, diffMask |-> NoMask]]
        /\ progress' = [progress EXCEPT
               !.cancelled = @ \/ Cancels(ok),
               !.maxCount = IF progress.exists /\ ok THEN Len(cmp.blockDiffs) ELSE @]
        /\ pc' = IF Cancels(ok) THEN "return" ELSE "mark"
        /\ out' = IF Cancels(ok) THEN [out EXCEPT !.result = COMPARE_CANCELLED]
                  ELSE [out EXCEPT !.alignmentInfo = <<>>]
    /\ UNCHANGED <<input, views, first>>

\* markAllDiffs: one pass of the loop over the blocks, with its Advance()
MarkBlock ==
    /\ pc = "mark"
    /\ cmp.i <= Len(cmp.blockDiffs)
    /\ \E ok \in Answers :
        LET Marked(r) ==
            /\ cmp' = [cmp EXCEPT !.doc1 = r.st.doc1, !.doc2 = r.st.doc2,
                                  !.a1 = r.st.a1, !.a2 = r.st.a2,
                                  !.i = IF Cancels(ok) THEN @ + r.used - 1 ELSE @ + r.used]
            /\ out' = [out EXCEPT !.alignmentInfo = r.st.rows, !.markers = r.st.markers,
                                  !.texts = r.st.texts,
                                  !.result = IF Cancels(ok) THEN COMPARE_CANCELLED ELSE @]
            /\ progress' = [progress EXCEPT !.cancelled = @ \/ Cancels(ok)]
            /\ pc' = IF Cancels(ok) THEN "return" ELSE "mark"
        IN  Marked(markBlock([doc1 |-> cmp.doc1, doc2 |-> cmp.doc2, a1 |-> cmp.a1,
                              a2 |-> cmp.a2, rows |-> out.alignmentInfo,
                              markers |-> out.markers, texts |-> out.texts],
                             cmp.blockDiffs, cmp.i,
                             views[cmp.doc1.view].text, views[cmp.doc2.view].text))
    /\ UNCHANGED <<input, views, first>>

\* markAllDiffs after its loop, and the return of runCompare
MarkDone ==
    /\ pc = "mark"
    /\ cmp.i > Len(cmp.blockDiffs)
    /\ \E ok \in Answers :
        LET a1 == IF cmp.selectionCompare THEN [cmp.a1 EXCEPT !.diffMask = NoMask] ELSE cmp.a1
            a2 == IF cmp.selectionCompare THEN [cmp.a2 EXCEPT !.diffMask = NoMask] ELSE cmp.a2
        IN  /\ cmp' = [cmp EXCEPT !.a1 = a1, !.a2 = a2]
            /\ out' = [out EXCEPT
                   !.alignmentInfo = IF cmp.selectionCompare
                                     THEN Append(@, AlignmentPair(cmp.doc1, a1, a2))
                                     ELSE @,
                   !.result = IF Cancels(ok) THEN COMPARE_CANCELLED ELSE COMPARE_MISMATCH]
            /\ progress' = [progress EXCEPT !.cancelled = @ \/ Cancels(ok)]
            /\ pc' = "return"
    /\ UNCHANGED <<input, views, first>>

-----------------------------------------------------------------------------
(* runFindUnique *)

UniqueHashDoc1 == pc = "uhash1" /\ HashStep(1, "umap1")

UniqueHashDoc2 == pc = "uhash2" /\ HashStep(2, "umap2")

\* runFindUnique: doc1UniqueLines is built, doc1LineHashes cleared, NextPhase()
UniqueMap1 ==
    /\ pc = "umap1"
    /\ \E ok \in Answers :
        /\ cmp' = [cmp EXCEPT !.doc1UniqueLines = uniqueLines(cmp.lineHashes1),
                              !.lineHashes1 = <<>>]
        /\ progress' = [progress EXCEPT !.cancelled = @ \/ Cancels(ok)]
        /\ pc' = IF Cancels(ok) THEN "return" ELSE "uhash2"
        /\ out' = IF Cancels(ok) THEN [out EXCEPT !.result = COMPARE_CANCELLED] ELSE out
    /\ UNCHANGED <<input, views, first>>

\* runFindUnique: doc2UniqueLines is built, doc2LineHashes cleared, NextPhase()
UniqueMap2 ==
    /\ pc = "umap2"
    /\ \E ok \in Answers :
        /\ cmp' = [cmp EXCEPT !.doc2UniqueLines = uniqueLines(cmp.lineHashes2),
                              !.lineHashes2 = <<>>]
        /\ progress' = [progress EXCEPT !.cancelled = @ \/ Cancels(ok)]
        /\ pc' = IF Cancels(ok) THEN "return" ELSE "unique"
        /\ out' = IF Cancels(ok) THEN [out EXCEPT !.result = COMPARE_CANCELLED] ELSE out
    /\ UNCHANGED <<input, views, first>>

\* runFindUnique: the hashes found in both maps are erased from doc2UniqueLines, the
\* lines left in either map are marked
UniqueLines ==
    /\ pc = "unique"
    /\ LET u1 == cmp.doc1UniqueLines
           u2 == cmp.doc2UniqueLines
           only1 == linesNotIn(u1, u2)
           left2 == [h \in DOMAIN u2 \ DOMAIN u1 |-> u2[h]]
           doc1UniqueLinesCount == Cardinality(only1)
           match == doc1UniqueLinesCount = 0 /\ DOMAIN left2 = {}
       IN  /\ cmp' = [cmp EXCEPT !.doc2UniqueLines = left2]
           /\ out' = [out EXCEPT
                  !.markers = @ \o uniqueMarkers(cmp.doc1, only1)
                                \o uniqueMarkers(cmp.doc2, UNION {left2[h] : h \in DOMAIN left2}),
                  !.alignmentInfo =
                      IF match THEN @
                      ELSE Append(@, [main |-> [line |-> input.mainViewSection.off,
                                                diffMask |-> NoMask],
                                      sub |-> [line |-> input.subViewSection.off,
                                               diffMask |-> NoMask]]),
                  !.result = IF match THEN COMPARE_MATCH ELSE COMPARE_MISMATCH]
    /\ pc' = "return"
    /\ UNCHANGED <<input, views, progress, first>>

-----------------------------------------------------------------------------
(* compareViews: the ways out *)

\* ProgressDlg::Close() after the function called has returned
CloseProgress ==
    /\ pc = "return"
    /\ progress' = [progress EXCEPT !.exists = FALSE, !.closed = @ + 1]
    /\ pc' = "done"
    /\ UNCHANGED <<input, views, cmp, out, first>>

\* where runCompare / runFindUnique call a collaborator or DiffCalc
InsideRun ==
    pc \in {"hash1", "hash2", "diff", "moves", "leading", "blocks", "mark",
            "uhash1", "uhash2", "umap1", "umap2", "unique"}

\* a collaborator or DiffCalc throws inside runCompare / runFindUnique
Throw ==
    /\ InsideRun
    /\ pc' = "catch"
    /\ UNCHANGED <<input, views, progress, cmp, out, first>>

\* a mutation of Catch: the catch clause shows the message and does not close the dialog
CatchLeavesDialog ==
    /\ pc = "catch"
    /\ out' = [out EXCEPT !.msgBoxes = @ + 1]
    /\ pc' = "done"
    /\ UNCHANGED <<input, views, cmp, progress, first>>

\* compareViews: the catch clauses
Catch ==
    /\ pc = "catch"
    /\ progress' = [progress EXCEPT !.exists = FALSE, !.closed = @ + 1]
    /\ out' = [out EXCEPT !.msgBoxes = @ + 1]
    /\ pc' = "done"
    /\ UNCHANGED <<input, views, cmp, first>>

-----------------------------------------------------------------------------
(* The same compare with the two documents exchanged between the views *)

otherView(v) == IF v = MAIN_VIEW THEN SUB_VIEW ELSE MAIN_VIEW

\* the arguments of the compare of (B, A) for those of the compare of (A, B)
exchanged(in) ==
    [in EXCEPT !.views = [v \in Views |-> in.views[otherView(v)]],
               !.mainViewSection = in.subViewSection,
               !.subViewSection = in.mainViewSection,
               !.settings.OldFileViewId = otherView(@)]

\* a finished compare is kept and the compare of the exchanged documents begins
ExchangeViews ==
    /\ pc = "done"
    /\ ~first.made
    /\ first' = [made |-> TRUE, out |-> out, views |-> views]
    /\ input' = exchanged(input)
    /\ views' = exchanged(input).views
    /\ pc' = "start"
    /\ progress' = progressInit
    /\ cmp' = cmpInit
    /\ out' = outInit(input)

-----------------------------------------------------------------------------
(* Inputs *)

Section0 == section_t(0, 0)
WholeDocs == {<<Section0, Section0>>}
NoStale == {<<>>}
StaleRow == [main |-> [line |-> 0, diffMask |-> NoMask],
             sub |-> [line |-> 0, diffMask |-> NoMask]]
Unmodified == {<<FALSE, FALSE, FALSE>>}

SettingsOf(Cases, Spaces, Moves, Olds) ==
    {[IgnoreCase |-> c, IgnoreSpaces |-> sp, DetectMoves |-> m, OldFileViewId |-> o] :
        c \in Cases, sp \in Spaces, m \in Moves, o \in Olds}

\* documents of 1..n lines over the lines L
Docs(L, n) == SeqsOf(L, 1, n)

\* the lines of the whole-compare specifications: empty, blank, two letters
BasicLines == {<<>>, <<" ">>, <<"a">>, <<"b">>}

-----------------------------------------------------------------------------
(* Spec: compareViews in both modes, with a progress dialog that may cancel at    *)
(* every Advance() / NextPhase() and collaborators that may throw                 *)

Init ==
    InitOf(Inputs(Docs(BasicLines, MaxLines) \X Docs(BasicLines, MaxLines),
                  WholeDocs,
                  SettingsOf({FALSE}, BOOLEAN, {TRUE}, {MAIN_VIEW}),
                  BOOLEAN, BOOLEAN, NoStale, Unmodified))

Next ==
    \/ CompareViewsOpen
    \/ HashDoc1
    \/ HashDoc2
    \/ RunDiffCalc
    \/ FindMovesStep
    \/ LeadingLine
    \/ CompareBlock
    \/ BlocksDone
    \/ MarkBlock
    \/ MarkDone
    \/ UniqueHashDoc1
    \/ UniqueHashDoc2
    \/ UniqueMap1
    \/ UniqueMap2
    \/ UniqueLines
    \/ CloseProgress
    \/ Throw
    \/ Catch

Spec == Init /\ [][Next]_vars

-----------------------------------------------------------------------------
(* What the claims speak of *)

\* compareViews has returned, no Advance() or NextPhase() has answered false and
\* nothing was thrown
Completed == pc = "done" /\ ~progress.cancelled /\ out.msgBoxes = 0

\* the block mask of the document of view v: REMOVED for the old file
MaskOf(v) ==
    IF input.settings.OldFileViewId = v THEN MARKER_MASK_REMOVED ELSE MARKER_MASK_ADDED

\* a line no byte of which is hashed
IsBlank(line) ==
    \A k \in 1..Len(line) : input.settings.IgnoreSpaces /\ line[k] \in {" ", "\t"}

\* the 0-based lines of the document compareViews was given in view v
LinesOf(v) == 0..(LineCount(input.views[v].text) - 1)

BlankLinesOf(v) == {k \in LinesOf(v) : IsBlank(input.views[v].text[k + 1])}

\* the blank lines of the document of view v other than its last line
InnerBlankLinesOf(v) == BlankLinesOf(v) \ {LineCount(input.views[v].text) - 1}

\* the lines of view v have moved down by one: the leading line was inserted
Shift(v) == IF views[v].text # input.views[v].text THEN 1 ELSE 0

\* the line hashes of the section of view v when hashing is not cancelled
HashesOf(v) ==
    computeLineHashes(input.views[v].text,
                      IF v = MAIN_VIEW THEN input.mainViewSection ELSE input.subViewSection,
                      input.settings, FALSE, TRUE).hashes

-----------------------------------------------------------------------------
(* Claims checked under Spec *)

\* C1: reflexivity - a normal compare of a document with itself that is neither
\* cancelled nor interrupted by an exception returns MATCH, leaves the alignment
\* table empty, paints no marker and inserts no text into either document.
C1_Reflexivity ==
    (/\ Completed
     /\ ~input.findUniqueMode
     /\ input.views[MAIN_VIEW].text = input.views[SUB_VIEW].text)
        => /\ out.result = COMPARE_MATCH
           /\ out.alignmentInfo = <<>>
           /\ out.markers = <<>>
           /\ views = input.views

\* C2: cancellation is honoured at every progress point - once an Advance() or a
\* NextPhase() of this compare has answered false, the function called is returning
\* COMPARE_CANCELLED: no later phase runs and the result is never MATCH or MISMATCH.
C2_CancelHonoured ==
    progress.cancelled =>
        /\ pc \in {"return", "done"}
        /\ out.result = COMPARE_CANCELLED

C10_ErrorOutcome ==
    /\ (pc = "catch" \/ out.msgBoxes > 0) => out.result = COMPARE_ERROR
    /\ progress.closed = (IF pc = "done" THEN 1 ELSE 0)
    /\ pc = "done" => ~progress.exists

\* C10 witness: an exception raised after markers were painted, under an open
\* progress dialog, has been caught
C10_Witness ==
    /\ pc = "done"
    /\ out.msgBoxes = 1
    /\ progress.opened = 1
    /\ out.markers # <<>>

-----------------------------------------------------------------------------
(* SpecUnique: compareViews in find-unique mode, on whole documents and on a      *)
(* selection of the main view, with a stale alignment table and a progress dialog *)
(* that may cancel                                                                *)

FromSecondLine == <<section_t(1, 0), Section0>>

InitUnique ==
    InitOf(Inputs(Docs(BasicLines, MaxLines) \X Docs(BasicLines, MaxLines),
                  WholeDocs \cup {FromSecondLine},
                  SettingsOf({FALSE}, BOOLEAN, {TRUE}, Views),
                  {TRUE}, BOOLEAN, {<<>>, <<StaleRow>>}, Unmodified))

NextUnique ==
    \/ CompareViewsOpen
    \/ UniqueHashDoc1
    \/ UniqueMap1
    \/ UniqueHashDoc2
    \/ UniqueMap2
    \/ UniqueLines
    \/ CloseProgress

SpecUnique == InitUnique /\ [][NextUnique]_vars

\* the markers find-unique mode owes the lines of view v whose hash is not among hs
UniqueMarkersOf(v, hs) ==
    {Marker(v,
            k + (IF v = MAIN_VIEW THEN input.mainViewSection.off
                 ELSE input.subViewSection.off),
            MaskOf(v)) :
        k \in {j \in 0..(Len(HashesOf(v)) - 1) : HashesOf(v)[j + 1] \notin hs}}

\* C7: find-unique mode, when it is neither cancelled nor interrupted, returns MATCH
\* iff the two documents have the same set of line hashes and MISMATCH otherwise; on
\* MATCH no marker is painted and the alignment table is empty; on MISMATCH exactly
\* the lines whose hash does not occur in the other document are painted, each once
\* and with its own document's mask, and the table has the one row of the two
\* section offsets.
C7_FindUnique ==
    (Completed /\ input.findUniqueMode) =>
        /\ out.result = (IF Range(HashesOf(MAIN_VIEW)) = Range(HashesOf(SUB_VIEW))
                         THEN COMPARE_MATCH ELSE COMPARE_MISMATCH)
        /\ Range(out.markers)
               = UniqueMarkersOf(MAIN_VIEW, Range(HashesOf(SUB_VIEW)))
                     \cup UniqueMarkersOf(SUB_VIEW, Range(HashesOf(MAIN_VIEW)))
        /\ Len(out.markers) = Cardinality(Range(out.markers))
        /\ out.result = COMPARE_MATCH => out.markers = <<>> /\ out.alignmentInfo = <<>>
        /\ out.result = COMPARE_MISMATCH =>
               out.alignmentInfo
                   = <<[main |-> [line |-> input.mainViewSection.off, diffMask |-> NoMask],
                        sub |-> [line |-> input.subViewSection.off, diffMask |-> NoMask]]>>

\* C7 witness: a finished find-unique run over a selection and a stale table that
\* painted two lines of one document
C7_Witness ==
    /\ Completed
    /\ input.findUniqueMode
    /\ input.alignmentInfo # <<>>
    /\ input.mainViewSection.off = 1
    /\ out.result = COMPARE_MISMATCH
    /\ \E m1, m2 \in Range(out.markers) : m1.view = m2.view /\ m1.line # m2.line

\* C8: find-unique mode ignores blank lines iff IgnoreSpaces is set - with
\* IgnoreSpaces set the result is MATCH iff the two documents have the same set of
\* hashes of non-blank lines and no blank line is painted; with IgnoreSpaces unset
\* blank lines count like any other line.
C8_BlanksIgnoredIffIgnoreSpaces ==
    (Completed /\ input.findUniqueMode) =>
        IF input.settings.IgnoreSpaces
        THEN /\ (out.result = COMPARE_MATCH)
                    <=> (Range(HashesOf(MAIN_VIEW)) \ {cHashSeed}
                             = Range(HashesOf(SUB_VIEW)) \ {cHashSeed})
             /\ \A m \in Range(out.markers) :
                    ~IsBlank(input.views[m.view].text[m.line + 1])
        ELSE (out.result = COMPARE_MATCH)
                 <=> (Range(HashesOf(MAIN_VIEW)) = Range(HashesOf(SUB_VIEW)))

-----------------------------------------------------------------------------
(* SpecMoves: runCompare up to the end of findMoves, on documents of up to         *)
(* MaxMoveLines lines over three letters                                          *)

MoveLines == {<<"a">>, <<"b">>, <<"c">>}

MovePairs ==
    {t \in Docs(MoveLines, MaxMoveLines) \X Docs(MoveLines, MaxMoveLines) :
        Len(t[1]) >= Len(t[2])}

InitMoves ==
    InitOf(Inputs(MovePairs, WholeDocs,
                  SettingsOf({FALSE}, {FALSE}, {TRUE}, {MAIN_VIEW}),
                  {FALSE}, {FALSE}, NoStale, Unmodified))

NextMoves ==
    \/ CompareViewsOpen
    \/ HashDoc1
    \/ HashDoc2
    \/ RunDiffCalc
    \/ FindMovesStep

SpecMoves == InitMoves /\ [][NextMoves]_vars

\* the matches recorded in block k
MatchesOf(k) == cmp.blockDiffs[k].info.matches

\* block k has a Match entry of len lines at off with the flag moved
HasMatch(k, off, len, moved) ==
    \E n \in 1..Len(MatchesOf(k)) :
        MatchesOf(k)[n] = [sec |-> section_t(off, len), moved |-> moved]

\* C3: every run that findMoves commits is moved exactly when the number of its
\* alternate IN_1 sources plus one equals the number of its IN_2 targets and it is
\* not a single line with more than one target; the block of the run, the block of
\* every alternate source and the block of every target hold a Match entry with
\* that flag and the length of the run.
C3_MovedFlag ==
    cmp.commit.made =>
        LET mi == cmp.commit.best.best_mi
            moved == /\ Len(mi.matchesIn1) + 1 = Len(mi.matchesIn2)
                     /\ ~(mi.sec.len = 1 /\ Len(mi.matchesIn2) > 1)
        IN  /\ cmp.commit.isMoved = moved
            /\ HasMatch(cmp.commit.best.bestMatchDiff, mi.sec.off, mi.sec.len, moved)
            /\ \A k \in 1..Len(mi.matchesIn1) :
                   HasMatch(mi.matchesIn1[k].diff, mi.matchesIn1[k].off, mi.sec.len, moved)
            /\ \A k \in 1..Len(mi.matchesIn2) :
                   HasMatch(mi.matchesIn2[k].diff, mi.matchesIn2[k].off, mi.sec.len, moved)
            /\ (Len(mi.matchesIn1) = 0 /\ Len(mi.matchesIn2) = 1) => moved
            /\ (mi.sec.len = 1 /\ Len(mi.matchesIn2) > 1) => ~moved

\* C3 witness: findMoves has committed a moved run of two lines
C3_Witness ==
    /\ cmp.commit.made
    /\ cmp.commit.isMoved
    /\ cmp.commit.best.best_mi.sec.len = 2
    /\ Len(cmp.commit.best.best_mi.matchesIn2) = 1

\* findMoves has run to its end
MovesFound == pc = "leading"

\* C4: after findMoves every entry of the matches list of every block lies inside
\* its block: 0 <= off, 0 < len and off + len <= block length (the list is in the
\* order the runs were committed, which need not be the order of the offsets, and
\* two entries of one block can overlap).
C4_MatchesInside ==
    MovesFound =>
        \A k \in 1..Len(cmp.blockDiffs) :
            \A n \in 1..Len(MatchesOf(k)) :
                /\ 0 <= MatchesOf(k)[n].sec.off
                /\ MatchesOf(k)[n].sec.len > 0
                /\ MatchesOf(k)[n].sec.off + MatchesOf(k)[n].sec.len
                       <= cmp.blockDiffs[k].len

\* C4 witness: findMoves has ended with a block whose matches list holds two entries
\* that share a line of the block
C4_Witness ==
    /\ MovesFound
    /\ \E k \in 1..Len(cmp.blockDiffs) :
           \E n, m \in 1..Len(MatchesOf(k)) :
               /\ n < m
               /\ MatchesOf(k)[n].sec.off < MatchesOf(k)[m].sec.off + MatchesOf(k)[m].sec.len
               /\ MatchesOf(k)[m].sec.off < MatchesOf(k)[n].sec.off + MatchesOf(k)[n].sec.len

\* C4 as claimed: after findMoves the matches list of every block is sorted by
\* offset, consecutive entries do not overlap and every entry lies inside the block.
C4_MatchesSorted ==
    MovesFound =>
        \A k \in 1..Len(cmp.blockDiffs) :
            /\ \A n \in 1..Len(MatchesOf(k)) :
                   /\ 0 <= MatchesOf(k)[n].sec.off
                   /\ MatchesOf(k)[n].sec.off + MatchesOf(k)[n].sec.len
                          <= cmp.blockDiffs[k].len
            /\ \A n \in 1..(Len(MatchesOf(k)) - 1) :
                   MatchesOf(k)[n].sec.off + MatchesOf(k)[n].sec.len
                       <= MatchesOf(k)[n + 1].sec.off

-----------------------------------------------------------------------------
(* SpecBlocks: runCompare up to the end of the block compares, on documents of up *)
(* to MaxPairLines lines whose lines differ by a word                              *)

PairLines == {<<"a">>, <<"a", " ">>, <<"b">>, <<"b", " ">>, <<"c">>}

InitBlocks ==
    InitOf(Inputs(Docs(PairLines, MaxPairLines) \X Docs(PairLines, MaxPairLines),
                  WholeDocs,
                  SettingsOf({FALSE}, {FALSE}, BOOLEAN, {MAIN_VIEW}),
                  {FALSE}, {FALSE}, NoStale, Unmodified))

NextBlocks ==
    \/ CompareViewsOpen
    \/ HashDoc1
    \/ HashDoc2
    \/ RunDiffCalc
    \/ FindMovesStep
    \/ LeadingLine
    \/ CompareBlock

SpecBlocks == InitBlocks /\ [][NextBlocks]_vars

\* the words of the lines of block bd, which lies in the document of doc
ChunkOf(bd, doc) == getWords(bd.off, bd.len, views[doc.view].text, input.settings)

\* the DIFF_IN_1 blocks that compareBlocks has paired with the block after them
PairedBlocks ==
    {i \in 1..Len(cmp.blockDiffs) :
        cmp.blockDiffs[i].type = DIFF_IN_1 /\ cmp.blockDiffs[i].info.matchBlock # 0}

\* C5: after compareBlocks on an adjacent (IN_1, IN_2) pair the changedLines of the
\* two blocks have the same number of entries, the k-th entry of the IN_1 block is
\* the line that the best mapping pairs with the k-th entry of the IN_2 block, and
\* the lines are strictly ascending in each list - also when compareLines swaps the
\* sides for some of the mapped pairs.
C5_ChangedLinesAligned ==
    \A i \in PairedBlocks :
        LET bd1 == cmp.blockDiffs[i]
            bd2 == cmp.blockDiffs[bd1.info.matchBlock]
            cl1 == bd1.info.changedLines
            cl2 == bd2.info.changedLines
            map == bestLineMappings(bd1, bd2, ChunkOf(bd1, cmp.doc1), ChunkOf(bd2, cmp.doc2))
        IN  /\ bd2.type = DIFF_IN_2
            /\ Len(cl1) = Len(cl2)
            /\ \A k \in 1..Len(cl1) :
                   /\ cl1[k].line \in DOMAIN map
                   /\ map[cl1[k].line].line2 = cl2[k].line
            /\ \A k \in 1..(Len(cl1) - 1) :
                   cl1[k].line < cl1[k + 1].line /\ cl2[k].line < cl2[k + 1].line

\* C5 witness: a paired block with two changed lines, the first with more words
\* than the line it is mapped to and the second with fewer
C5_Witness ==
    \E i \in PairedBlocks :
        LET bd1 == cmp.blockDiffs[i]
            bd2 == cmp.blockDiffs[bd1.info.matchBlock]
            cl1 == bd1.info.changedLines
            cl2 == bd2.info.changedLines
            chunk1 == ChunkOf(bd1, cmp.doc1)
            chunk2 == ChunkOf(bd2, cmp.doc2)
        IN  /\ Len(cl1) = 2
            /\ Len(cl2) = 2
            /\ Len(chunk1[cl1[1].line + 1]) > Len(chunk2[cl2[1].line + 1])
            /\ Len(chunk1[cl1[2].line + 1]) < Len(chunk2[cl2[2].line + 1])

-----------------------------------------------------------------------------
(* SpecSwap: a normal compare of (A, B) run to its end and then the compare of    *)
(* (B, A) with OldFileViewId exchanged, on documents of up to MaxSwapLines lines   *)

SwapLines == {<<>>, <<"a">>, <<"b">>, <<"a", " ">>}

InitSwap ==
    InitOf(Inputs(Docs(SwapLines, MaxSwapLines) \X Docs(SwapLines, MaxSwapLines),
                  WholeDocs,
                  SettingsOf({FALSE}, {FALSE}, {TRUE}, Views),
                  {FALSE}, {FALSE}, NoStale, Unmodified))

NextSwap ==
    \/ CompareViewsOpen
    \/ HashDoc1
    \/ HashDoc2
    \/ RunDiffCalc
    \/ FindMovesStep
    \/ LeadingLine
    \/ CompareBlock
    \/ BlocksDone
    \/ MarkBlock
    \/ MarkDone
    \/ CloseProgress
    \/ ExchangeViews

SpecSwap == InitSwap /\ [][NextSwap]_vars

\* both compares have returned
BothCompared == first.made /\ pc = "done"

\* a marker of the compare of (B, A) on the document as it lay in the compare of (A, B)
ExchangedMarker(m) == [m EXCEPT !.view = otherView(@)]

\* the compare of (B, A) gave the result, the alignment table with the main and sub
\* columns exchanged and the markers of the compare of (A, B)
SwapSymmetric ==
    /\ out.result = first.out.result
    /\ Len(out.alignmentInfo) = Len(first.out.alignmentInfo)
    /\ \A k \in 1..Len(out.alignmentInfo) :
           /\ out.alignmentInfo[k].main = first.out.alignmentInfo[k].sub
           /\ out.alignmentInfo[k].sub = first.out.alignmentInfo[k].main
    /\ {ExchangedMarker(out.markers[k]) : k \in 1..Len(out.markers)}
           = Range(first.out.markers)

\* the two documents have line-hash sequences of different lengths
DifferentLengths == Len(HashesOf(MAIN_VIEW)) # Len(HashesOf(SUB_VIEW))

\* C6: swap symmetry for documents whose line-hash sequences differ in length -
\* compare(A, B, s) and compare(B, A, s with OldFileViewId swapped) return the same
\* result, give alignment tables that are equal after exchanging the main and sub
\* columns and paint the same marker on the same line of the same document.
C6_SwapSymmetryDifferentLengths ==
    (BothCompared /\ DifferentLengths) => SwapSymmetric

\* C6 witness: both compares of two documents of different lengths have returned
\* MISMATCH with several alignment rows and markers
C6_Witness ==
    /\ BothCompared
    /\ DifferentLengths
    /\ out.result = COMPARE_MISMATCH
    /\ Len(out.alignmentInfo) > 1
    /\ out.markers # <<>>
    /\ cmp.doc1.view = SUB_VIEW

\* C6 as claimed: swap symmetry for all documents, those with the same number of
\* lines included.
C6_SwapSymmetry ==
    BothCompared => SwapSymmetric

-----------------------------------------------------------------------------
(* SpecScore: runCompare up to the end of the block compares, on documents whose  *)
(* lines share a word and differ in length                                        *)

ScoreLines ==
    {<<"a", "a", "+", "b">>, <<"a", "a", "-", "c">>, <<"c", "c", "c", "c", "-">>}

InitScore ==
    InitOf(Inputs(Docs(ScoreLines, MaxPairLines) \X Docs(ScoreLines, MaxPairLines),
                  WholeDocs,
                  SettingsOf({FALSE}, {FALSE}, BOOLEAN, {MAIN_VIEW}),
                  {FALSE}, {FALSE}, NoStale, Unmodified))

NextScore ==
    \/ CompareViewsOpen
    \/ HashDoc1
    \/ HashDoc2
    \/ RunDiffCalc
    \/ FindMovesStep
    \/ LeadingLine
    \/ CompareBlock

SpecScore == InitScore /\ [][NextScore]_vars

RECURSIVE scoredLines(_, _, _)
\* compareBlocks: the lines of a chunk, from line on, that the loops do not skip as
\* empty or as part of a moved match
scoredLines(info, chunk, line) ==
    IF line >= Len(chunk) THEN {}
    ELSE IF chunk[line + 1] = <<>> THEN scoredLines(info, chunk, line + 1)
    ELSE IF matchedSection(info, line).len # 0 /\ matchedSection(info, line).isMoved
         THEN scoredLines(info, chunk, line + matchedSection(info, line).len)
         ELSE {line} \cup scoredLines(info, chunk, line + 1)

\* the score of the lines of words w1 and w2 taken alone: the better of the share of
\* matched words in the line of more words and the share of matched bytes in the
\* longer line; -1 when one line has more than twice the words of the other
PairScore(w1, w2) ==
    LET pLine1 == IF Len(w1) < Len(w2) THEN w2 ELSE w1
        pLine2 == IF Len(w1) < Len(w2) THEN w1 ELSE w2
        linesDiff == DiffCalc(WordHashes(pLine1), WordHashes(pLine2))
        spans == {k \in 1..Len(linesDiff) : linesDiff[k].type = DIFF_MATCH}
        matchedWords == SumSeq([k \in 1..Len(linesDiff) |->
                            IF k \in spans THEN linesDiff[k].len ELSE 0])
        matchedBytes == SumSeq([k \in 1..Len(linesDiff) |->
                            IF k \in spans
                            THEN SumSeq([i \in 1..linesDiff[k].len |->
                                     pLine1[linesDiff[k].off + i].length])
                            ELSE 0])
    IN  IF Len(pLine1) > 2 * Len(pLine2) THEN -1
        ELSE Max((matchedWords * 100) \div Len(pLine1),
                 (matchedBytes * 100) \div Max(LineLen(w1), LineLen(w2)))

\* C11: the score that compareBlocks records for a line pair (a, b) is the score of
\* a and b taken alone, with the byte score 100 * matchedBytes / max(bytes(a),
\* bytes(b)): the recorded pairs are exactly the scored pairs whose own score is at
\* least 50, each with that score, whatever lines were scored against a before b.
C11_ScoreOfPairAlone ==
    \A i \in PairedBlocks :
        LET bd1 == cmp.blockDiffs[i]
            bd2 == cmp.blockDiffs[bd1.info.matchBlock]
            chunk1 == ChunkOf(bd1, cmp.doc1)
            chunk2 == ChunkOf(bd2, cmp.doc2)
        IN  convergenceLine1(bd1, bd2, chunk1, chunk2, 0, {})
                = {[convergence |-> PairScore(chunk1[l[1] + 1], chunk2[l[2] + 1]),
                    line1 |-> l[1], line2 |-> l[2]] :
                      l \in {p \in scoredLines(bd1.info, chunk1, 0)
                                     \X scoredLines(bd2.info, chunk2, 0) :
                                PairScore(chunk1[p[1] + 1], chunk2[p[2] + 1]) >= 50}}

-----------------------------------------------------------------------------
(* SpecBlankMoves: runCompare up to the end of findMoves, on documents of up to   *)
(* MaxMoveLines lines with empty lines among them                                 *)

BlankMoveLines == {<<>>, <<"a">>, <<"c">>}

BlankMovePairs ==
    {t \in Docs(BlankMoveLines, MaxMoveLines) \X Docs(BlankMoveLines, MaxMoveLines) :
        Len(t[1]) >= Len(t[2])}

InitBlankMoves ==
    InitOf(Inputs(BlankMovePairs, WholeDocs,
                  SettingsOf({FALSE}, {FALSE}, {TRUE}, {MAIN_VIEW}),
                  {FALSE}, {FALSE}, NoStale, Unmodified))

NextBlankMoves ==
    \/ CompareViewsOpen
    \/ HashDoc1
    \/ HashDoc2
    \/ RunDiffCalc
    \/ FindMovesStep

SpecBlankMoves == InitBlankMoves /\ [][NextBlankMoves]_vars

\* the hash of element e of block k, before the block offsets are rebased
HashAt(k, e) ==
    IF cmp.blockDiffs[k].type = DIFF_IN_2
    THEN cmp.lineHashes2[cmp.blockDiffs[k].off + e + 1]
    ELSE cmp.lineHashes1[cmp.blockDiffs[k].off + e + 1]

\* the elements of block k that its n-th match covers
MatchLines(k, n) ==
    MatchesOf(k)[n].sec.off .. (MatchesOf(k)[n].sec.off + MatchesOf(k)[n].sec.len - 1)

\* C12: a blank line is never the anchor of a run - the element at which findMoves
\* looks for a run and the element of the better match it commits instead do not
\* hash to the seed, and the committed run holds its anchor (findMatches may take
\* blank lines into the run when it extends the match around the anchor).
C12_AnchorNotBlank ==
    cmp.commit.made =>
        LET best == cmp.commit.best IN
        /\ HashAt(cmp.commit.di1, cmp.commit.ei1) # cHashSeed
        /\ HashAt(best.bestMatchDiff, best.ei) # cHashSeed
        /\ best.ei >= best.best_mi.sec.off
        /\ best.ei < best.best_mi.sec.off + best.best_mi.sec.len

\* C12 witness: findMoves has committed a run that begins with a blank line
C12_Witness ==
    /\ cmp.commit.made
    /\ cmp.commit.best.best_mi.sec.len > 1
    /\ HashAt(cmp.commit.best.bestMatchDiff, cmp.commit.best.best_mi.sec.off) = cHashSeed

\* C12 as claimed: after findMoves no Match section of any block contains a line
\* whose hash is the seed.
C12_NoBlankInMatches ==
    MovesFound =>
        \A k \in 1..Len(cmp.blockDiffs) :
            \A n \in 1..Len(MatchesOf(k)) :
                \A e \in MatchLines(k, n) : HashAt(k, e) # cHashSeed

-----------------------------------------------------------------------------
(* SpecCancelMoves: runCompare with a progress dialog up to the block compares,   *)
(* the user pressing Cancel while findMoves runs                                  *)

\* the user presses Cancel on the progress dialog during move detection; every
\* Advance() and NextPhase() from then on answers false
CancelRequest ==
    /\ pc = "moves"
    /\ progress.exists
    /\ ~progress.requested
    /\ progress' = [progress EXCEPT !.requested = TRUE]
    /\ UNCHANGED <<input, views, pc, cmp, out, first>>

InitCancelMoves ==
    InitOf(Inputs(Docs(MoveLines, MaxLines + 1) \X Docs(MoveLines, MaxLines + 1),
                  WholeDocs,
                  SettingsOf({FALSE}, {FALSE}, {TRUE}, {MAIN_VIEW}),
                  {FALSE}, {TRUE}, NoStale, Unmodified))

NextCancelMoves ==
    \/ CompareViewsOpen
    \/ HashDoc1
    \/ HashDoc2
    \/ RunDiffCalc
    \/ FindMovesStep
    \/ CancelRequest
    \/ LeadingLine
    \/ CloseProgress

SpecCancelMoves == InitCancelMoves /\ [][NextCancelMoves]_vars

\* both documents were hashed to the end
FullyHashed ==
    {cmp.lineHashes1, cmp.lineHashes2} = {HashesOf(MAIN_VIEW), HashesOf(SUB_VIEW)}

\* C13: move detection is cancellable - once the user has pressed Cancel while
\* findMoves runs on two fully hashed documents, the compare is still in move
\* detection or has returned CANCELLED, and no leading newline has been inserted
\* into the documents.
C13_MovesCancellable ==
    (progress.requested /\ FullyHashed) =>
        /\ pc \in {"moves", "return", "done"}
        /\ pc \in {"return", "done"} => out.result = COMPARE_CANCELLED
        /\ views = input.views

-----------------------------------------------------------------------------
(* SpecLeading: runCompare up to the leading-line workaround and the rebase of    *)
(* the block offsets, on whole documents and selections, modified or not,         *)
(* read-only or not                                                               *)

BothFromSecondLine == <<section_t(1, 0), section_t(1, 0)>>

InitLeading ==
    InitOf(Inputs(Docs(BasicLines, MaxLines) \X Docs(BasicLines, MaxLines),
                  WholeDocs \cup {FromSecondLine, BothFromSecondLine},
                  SettingsOf({FALSE}, {FALSE}, {TRUE}, {MAIN_VIEW}),
                  {FALSE}, {FALSE}, NoStale,
                  BOOLEAN \X BOOLEAN \X BOOLEAN))

NextLeading ==
    \/ CompareViewsOpen
    \/ HashDoc1
    \/ HashDoc2
    \/ RunDiffCalc
    \/ FindMovesStep
    \/ LeadingLine

SpecLeading == InitLeading /\ [][NextLeading]_vars

\* the first block is not MATCH and at least one section begins at line 0
LeadingLineDue ==
    /\ Len(cmp.blockDiffs) > 0
    /\ cmp.blockDiffs[1].type # DIFF_MATCH
    /\ (cmp.doc1.section.off = 0 \/ cmp.doc2.section.off = 0)

\* what the leading-line step of runCompare owes: by lines, the number of lines
\* inserted at the origin of both documents
LeadingLineStep(lines) ==
    /\ \A v \in Views :
           /\ views'[v].text = [k \in 1..lines |-> <<>>] \o views[v].text
           /\ views'[v].modified = views[v].modified
           /\ views'[v].readOnly = views[v].readOnly
    /\ Len(cmp'.blockDiffs) = Len(cmp.blockDiffs)
    /\ \A k \in 1..Len(cmp.blockDiffs) :
           cmp'.blockDiffs[k].off
               = cmp.blockDiffs[k].off + lines
                     + (IF cmp.blockDiffs[k].type = DIFF_IN_2
                        THEN cmp.doc2.section.off ELSE cmp.doc1.section.off)

\* C14: the leading-line step of runCompare inserts one "\n" at the origin of both
\* documents exactly when the first block is not MATCH and at least one section
\* offset is 0, and then every block's offset is its DiffCalc offset + the section
\* origin of its side + 1; otherwise nothing is inserted and every block's offset is
\* its DiffCalc offset + the section origin of its side.  A document keeps its
\* modified state (an unmodified one is at a save point again) and its read-only
\* state.
C14_LeadingLine ==
    [][pc = "leading" => LeadingLineStep(IF LeadingLineDue THEN 1 ELSE 0)]_vars

-----------------------------------------------------------------------------
(* SpecRuns: runCompare up to the end of findMoves, on a document that ends with  *)
(* up to MaxRunLines lines over two letters and a document that begins with up    *)
(* to MaxRunLines - 1 such lines, with three common lines between them            *)

RunLines == {<<"a">>, <<"x">>}

CommonLines == <<<<"m">>, <<"m">>, <<"m">>>>

RunPairs ==
    {<<CommonLines \o tail, head \o CommonLines>> :
        tail \in Docs(RunLines, MaxRunLines), head \in Docs(RunLines, MaxRunLines - 1)}

InitRuns ==
    InitOf(Inputs(RunPairs, WholeDocs,
                  SettingsOf({FALSE}, {FALSE}, {TRUE}, {MAIN_VIEW}),
                  {FALSE}, {FALSE}, NoStale, Unmodified))

NextRuns ==
    \/ CompareViewsOpen
    \/ HashDoc1
    \/ HashDoc2
    \/ RunDiffCalc
    \/ FindMovesStep

SpecRuns == InitRuns /\ [][NextRuns]_vars

-----------------------------------------------------------------------------
(* SpecTies: runCompare up to the end of findMoves, on a document that ends with  *)
(* an empty line and MaxTieLines lines a or y and a document that begins with up  *)
(* to MaxTieLines lines a or empty and a line x, three common lines between them  *)

TieLines == {<<"a">>, <<"y">>}

TieHeadLines == {<<"a">>, <<>>}

TiePairs ==
    {<<CommonLines \o <<<<>>>> \o tail, head \o <<<<"x">>>> \o CommonLines>> :
        tail \in SeqsOf(TieLines, MaxTieLines, MaxTieLines),
        head \in Docs(TieHeadLines, MaxTieLines)}

InitTies ==
    InitOf(Inputs(TiePairs, WholeDocs,
                  SettingsOf({FALSE}, {FALSE}, {TRUE}, {MAIN_VIEW}),
                  {FALSE}, {FALSE}, NoStale, Unmodified))

NextTies ==
    \/ CompareViewsOpen
    \/ HashDoc1
    \/ HashDoc2
    \/ RunDiffCalc
    \/ FindMovesStep

SpecTies == InitTies /\ [][NextTies]_vars

\* the hashes of the len elements of block k from element off
RunHashes(k, off, len) == [j \in 1..len |-> HashAt(k, off + j - 1)]

\* C15 as claimed: for every run that findMoves commits, the primary IN_1 section,
\* each alternate IN_1 section and each IN_2 target section lie inside their blocks,
\* have the length of the run and, position by position, the line hashes of the
\* primary.
C15_SameContent ==
    cmp.commit.made =>
        LET mi == cmp.commit.best.best_mi
            primary == RunHashes(cmp.commit.best.bestMatchDiff, mi.sec.off, mi.sec.len)
            Same(m) ==
                /\ 0 <= m.off
                /\ m.off + mi.sec.len <= cmp.blockDiffs[m.diff].len
                /\ RunHashes(m.diff, m.off, mi.sec.len) = primary
        IN  /\ \A k \in 1..Len(mi.matchesIn1) : Same(mi.matchesIn1[k])
            /\ \A k \in 1..Len(mi.matchesIn2) : Same(mi.matchesIn2[k])

-----------------------------------------------------------------------------
(* SpecPaint: compareViews to its return, on a document that begins with up to    *)
(* MaxPaintLines lines a or x and a changed line and a document that begins with  *)
(* the other form of the changed line and ends with up to MaxPaintLines - 1 lines *)
(* a or x, three common lines between them                                        *)

PaintOld == <<"a", "a", "-", "c">>

PaintNew == <<"a", "a", "+", "b">>

PaintPairs ==
    {<<head \o <<PaintOld>> \o CommonLines, <<PaintNew>> \o CommonLines \o tail>> :
        head \in Docs(RunLines, MaxPaintLines), tail \in Docs(RunLines, MaxPaintLines - 1)}

InitPaint ==
    InitOf(Inputs(PaintPairs, WholeDocs,
                  SettingsOf({FALSE}, {FALSE}, {TRUE}, {MAIN_VIEW}),
                  {FALSE}, {FALSE}, NoStale, Unmodified))

NextPaint ==
    \/ CompareViewsOpen
    \/ HashDoc1
    \/ HashDoc2
    \/ RunDiffCalc
    \/ FindMovesStep
    \/ LeadingLine
    \/ CompareBlock
    \/ BlocksDone
    \/ MarkBlock
    \/ MarkDone
    \/ CloseProgress

SpecPaint == InitPaint /\ [][NextPaint]_vars

\* the view that holds the lines of block k
ViewOfBlock(k) ==
    IF cmp.blockDiffs[k].type = DIFF_IN_2 THEN cmp.doc2.view ELSE cmp.doc1.view

\* the difference blocks
DiffBlocks == {k \in 1..Len(cmp.blockDiffs) : cmp.blockDiffs[k].type # DIFF_MATCH}

\* the SCI_MARKERADDSET calls made on the line of view v
MarksAt(v, line) ==
    {n \in 1..Len(out.markers) : out.markers[n].view = v /\ out.markers[n].line = line}

\* C16 as claimed: when markAllDiffs has walked the block list, every line of every
\* IN_1 / IN_2 block has received exactly one line marker, and every line marker
\* lies on a line of an IN_1 / IN_2 block of its view.
C16_PaintedOnce ==
    (Completed /\ out.result = COMPARE_MISMATCH) =>
        /\ \A k \in DiffBlocks :
               \A e \in 0..(cmp.blockDiffs[k].len - 1) :
                   Cardinality(MarksAt(ViewOfBlock(k), cmp.blockDiffs[k].off + e)) = 1
        /\ \A n \in 1..Len(out.markers) :
               \E k \in DiffBlocks :
                   /\ ViewOfBlock(k) = out.markers[n].view
                   /\ out.markers[n].line >= cmp.blockDiffs[k].off
                   /\ out.markers[n].line < cmp.blockDiffs[k].off + cmp.blockDiffs[k].len

-----------------------------------------------------------------------------
(* SpecRunsFair: SpecRuns with the loop of findMoves running on - findMoves       *)
(* waits for nothing and runs in the thread of runCompare. The condition is       *)
(* WF_vars(FindMovesStep) written out, with ENABLED <<FindMovesStep>>_vars        *)
(* replaced by its value pc = "moves": every pass of the body changes cmp.        *)

SpecRunsFair ==
    SpecRuns /\ ([]<>(pc # "moves") \/ []<><<FindMovesStep>>_vars)

\* the elements of the DIFF_IN_2 blocks of bds that lie in a match
MatchedIn2(bds) ==
    UNION {{<<k, e>> : e \in {x \in 0..(bds[k].len - 1) :
                                 matchedSection(bds[k].info, x).len # 0}} :
              k \in {d \in 1..Len(bds) : bds[d].type = DIFF_IN_2}}

\* the run committed by the last pass was anchored elsewhere: findMoves takes the
\* branch "--ei1" and examines the element again
ReExamined(commit) ==
    /\ commit.made
    /\ ~(commit.best.bestMatchDiff = commit.di1 /\ commit.best.ei = commit.ei1)

\* one pass of the body of findMoves: a commit adds an element of a DIFF_IN_2 block
\* to the matched ones and takes none away; a pass that examines its element again
\* stays, every other pass moves on in the block or to a later block
FindMovesProgress ==
    pc = "moves" =>
        /\ cmp'.commit.made =>
               /\ MatchedIn2(cmp.blockDiffs) \subseteq MatchedIn2(cmp'.blockDiffs)
               /\ MatchedIn2(cmp.blockDiffs) # MatchedIn2(cmp'.blockDiffs)
        /\ ReExamined(cmp'.commit) => (cmp'.di1 = cmp.di1 /\ cmp'.ei1 = cmp.ei1)
        /\ ~ReExamined(cmp'.commit) =>
               \/ cmp'.di1 > cmp.di1
               \/ cmp'.di1 = cmp.di1 /\ cmp'.ei1 > cmp.ei1

\* the indices the inner scans jump to are not behind the element they stand at:
\* a candidate of findMatches anchored at element ei2 ends at or after ei2
\* ("ei2 = start2 + matchLen - 1"), and the section findMatches gives for element i
\* of a DIFF_IN_1 block holds i ("i = mi.sec.off + mi.sec.len - 1")
ScansForward ==
    pc = "moves" =>
        \A d1 \in 1..Len(cmp.blockDiffs) :
            cmp.blockDiffs[d1].type = DIFF_IN_1 =>
                \A i \in 0..(cmp.blockDiffs[d1].len - 1) :
                    LET Holds(mi) ==
                            mi.sec.len > 0 =>
                                (mi.sec.off <= i /\ i <= mi.sec.off + mi.sec.len - 1)
                        Ends(ei2, b, e) ==
                            (b.start2 + 1) + ((e.end1 - 1) - (b.start1 + 1) + 1) - 1 >= ei2
                    IN  /\ Holds(findMatches(cmp.blockDiffs, cmp.lineHashes1,
                                              cmp.lineHashes2, d1, i))
                        /\ \A d2 \in 1..Len(cmp.blockDiffs) :
                               cmp.blockDiffs[d2].type = DIFF_IN_2 =>
                                   \A ei2 \in 0..(cmp.blockDiffs[d2].len - 1) :
                                       Ends(ei2,
                                            MatchBegin(cmp.blockDiffs, cmp.lineHashes1,
                                                cmp.lineHashes2, d1, d2,
                                                [start1 |-> i - 1, start2 |-> ei2 - 1]),
                                            MatchEnd(cmp.blockDiffs, cmp.lineHashes1,
                                                cmp.lineHashes2, d1, d2,
                                                [end1 |-> i + 1, end2 |-> ei2 + 1]))

\* C17: findMoves terminates: every commit marks an element of a DIFF_IN_2 block
\* that was not matched as matched, so an element is examined again at most as often
\* as there are DIFF_IN_2 elements; every other pass moves on; the inner scans never
\* move their index backwards; and findMoves comes to its end.
C17_FindMovesTerminates ==
    /\ [][FindMovesProgress]_vars
    /\ []ScansForward
    /\ (pc = "moves") ~> (pc # "moves")

\* C17 witness: findMoves has committed a run anchored elsewhere and stands at the
\* element it examined, to examine it again
C17_Witness ==
    /\ pc = "moves"
    /\ ReExamined(cmp.commit)
    /\ cmp.di1 = cmp.commit.di1
    /\ cmp.ei1 = cmp.commit.ei1

=============================================================================
